---- MODULE Spec2Model ----
(***************************************************************************)
(* Model of claude-permissions-hook: the decision engine that turns one    *)
(* PreToolUse hook input and a loaded config into allow / ask / deny or    *)
(* "no opinion".                                                           *)
(*                                                                         *)
(* Strings of the program are sequences of one-character strings, so that  *)
(* starts_with, contains, strip_prefix, split and replace are computed as  *)
(* the code computes them.  The shell grammar parser (brush-parser) is an  *)
(* external library: a command string is carried together with the AST the *)
(* parser yields for it, and the walker of src/command/mod.rs is modelled  *)
(* on that AST.                                                            *)
(*                                                                         *)
(* Specifications: Spec (load, then evaluate), SpecAgg (aggregation, mode   *)
(* modifier and reason), SpecLookup (tier lookup), SpecPath (path          *)
(* normalization and glob matching), SpecMatch (bash rule against          *)
(* segment), SpecHook (the hook subcommand with its config discovery,      *)
(* stdin and stdout), SpecWalk (the command walker on command lines) and   *)
(* SpecRule (the loader of bash rules).  The variables below are described *)
(* for Spec; each of the other specifications says what it keeps in them.  *)
(***************************************************************************)
EXTENDS Integers, Sequences, FiniteSets, TLC

VARIABLES
    pc,        \* "start" -> "loaded" -> "done": position of the hook process
    home,      \* value of $HOME in the process environment, or Unset
    source,    \* the config as written: [present, bash, files]
    config,    \* the loaded Config (NoConfig before loading / when absent)
    input,     \* the HookInput: tool_name, tool_input, permission_mode, cwd
    trace,     \* intermediate values of the evaluation that produced result
    result     \* Option<HookOutput> reduced to its decision, Pending before

vars == <<pc, home, source, config, input, trace, result>>

(***************************************************************************)
(* String helpers (Rust std on &str)                                       *)
(***************************************************************************)

StartsWith(s, p) == Len(s) >= Len(p) /\ SubSeq(s, 1, Len(p)) = p

Contains(s, c) == \E i \in 1..Len(s) : s[i] = c

StripPrefix(s, p) == SubSeq(s, Len(p) + 1, Len(s))

RECURSIVE Concat(_)
Concat(ss) == IF ss = <<>> THEN <<>> ELSE Head(ss) \o Concat(Tail(ss))

RECURSIVE JoinWith(_, _)
JoinWith(parts, sep) ==
    IF parts = <<>> THEN <<>>
    ELSE IF Len(parts) = 1 THEN parts[1]
    ELSE parts[1] \o sep \o JoinWith(Tail(parts), sep)

\* s.split(c): the pieces between occurrences of c, empty pieces included
RECURSIVE SplitOn(_, _)
SplitOn(s, c) ==
    IF ~Contains(s, c) THEN <<s>>
    ELSE LET i == CHOOSE k \in 1..Len(s) : s[k] = c /\ \A j \in 1..(k-1) : s[j] # c
         IN <<SubSeq(s, 1, i - 1)>> \o SplitOn(SubSeq(s, i + 1, Len(s)), c)

\* s.replace(from, to): every non-overlapping occurrence, left to right
RECURSIVE Replace(_, _, _)
Replace(s, from, to) ==
    IF Len(s) < Len(from) \/ from = <<>> THEN s
    ELSE IF StartsWith(s, from) THEN to \o Replace(StripPrefix(s, from), from, to)
    ELSE <<Head(s)>> \o Replace(Tail(s), from, to)

Whitespace == {" ", "\t", "\n"}

\* command.trim().is_empty()
TrimIsEmpty(s) == \A i \in 1..Len(s) : s[i] \in Whitespace

Range(f) == {f[i] : i \in DOMAIN f}

(***************************************************************************)
(* Decisions, aggregation and the mode modifier                            *)
(***************************************************************************)

None == "None"
Allow == "Allow"
Ask == "Ask"
Deny == "Deny"
Pending == "Pending"

Decision == {Allow, Ask, Deny}
OptDecision == Decision \cup {None}

PermissionMode == {"default", "plan", "acceptEdits", "dontAsk", "bypassPermissions"}

severity(d) == CASE d = Allow -> 0 [] d = Ask -> 1 [] d = Deny -> 2

unwrap_or(d, dflt) == IF d = None THEN dflt ELSE d

\* faulty variant: the first element, whatever its severity
max_by_key_severity_first(ds) == ds[1]

\* Iterator::max_by_key: the last element among those of maximal key
max_by_key_severity(ds) ==
    LET best == CHOOSE i \in 1..Len(ds) :
                   /\ \A j \in 1..Len(ds) : severity(ds[j]) <= severity(ds[i])
                   /\ \A j \in (i+1)..Len(ds) : severity(ds[j]) < severity(ds[i])
    IN ds[best]

\* faulty variant: an entity without opinion counts as allowed
aggregate_decisions_none_as_allow(decisions) ==
    IF decisions = <<>> THEN None
    ELSE IF ~(\E i \in 1..Len(decisions) : decisions[i] # None) THEN None
    ELSE max_by_key_severity([i \in 1..Len(decisions) |-> unwrap_or(decisions[i], Allow)])

aggregate_decisions(decisions) ==
    IF decisions = <<>> THEN None
    ELSE IF ~(\E i \in 1..Len(decisions) : decisions[i] # None) THEN None
    ELSE max_by_key_severity([i \in 1..Len(decisions) |-> unwrap_or(decisions[i], Ask)])

\* faulty variant: acceptEdits treated like bypassPermissions
apply_mode_modifier_accept_edits(decision, mode) ==
    IF decision \in {Allow, Deny} THEN decision
    ELSE CASE mode \in {"bypassPermissions", "acceptEdits"} -> Allow
           [] mode = "dontAsk" -> Deny
           [] OTHER -> Ask

apply_mode_modifier(decision, mode) ==
    IF decision \in {Allow, Deny} THEN decision
    ELSE CASE mode = "bypassPermissions" -> Allow
           [] mode = "dontAsk" -> Deny
           [] OTHER -> Ask

(***************************************************************************)
(* Domain types                                                            *)
(***************************************************************************)

\* ProgramName::new: raw.rsplit('/').next()
ProgramName_new(raw) ==
    LET parts == SplitOn(raw, "/") IN parts[Len(parts)]

\* std::path::Path::file_name(..).unwrap_or(name), as used by the walker to
\* recognise wrappers: the last normal component; None when the path has no
\* normal component or terminates in "..".
file_name_or(name) ==
    LET parts == SplitOn(name, "/")
        comps == SelectSeq(parts, LAMBDA c : c # <<>> /\ c # <<".">>)
    IN IF comps = <<>> THEN name
       ELSE IF comps[Len(comps)] = <<".", ".">> THEN name
       ELSE comps[Len(comps)]

(***************************************************************************)
(* Shell command walker (src/command/mod.rs)                               *)
(*                                                                         *)
(* AST as brush-parser yields it, flattened over pipelines and and/or      *)
(* lists, which the walker visits in order:                                *)
(*   Program  == Seq(Command)                                              *)
(*   Command  == [type: "Simple", word: chars, suffix: Seq(Item)]          *)
(*             | [type: "Arithmetic"] | [type: "ExtendedTest"]             *)
(*   Item     == [kind: "Word" | "IoRedirect" | "AssignmentWord",          *)
(*                text: chars, payload_ast: ParseError | Parsed(Program)]  *)
(* word = <<>> stands for a simple command without a program word.  An     *)
(* item's payload_ast is what the parser yields for the split-string       *)
(* payload the word carries (its text, or the part after -S /              *)
(* --split-string=), outer quotes stripped.                                *)
(***************************************************************************)

ParseError == [ok |-> FALSE, program |-> <<>>]
Parsed(program) == [ok |-> TRUE, program |-> program]

Ok(segs) == [ok |-> TRUE, segs |-> segs]
Err == [ok |-> FALSE, segs |-> <<>>]

TRANSPARENT_WRAPPERS ==
    { <<"c","o","m","m","a","n","d">>, <<"e","n","v">>, <<"n","o","h","u","p">>,
      <<"e","x","e","c">>, <<"b","u","i","l","t","i","n">> }

\* faulty variant: a single-dash token with = in it is taken apart too
expand_flags_despite_equals(arg) ==
    IF \/ ~StartsWith(arg, <<"-">>)
       \/ arg = <<"-">>
       \/ arg = <<"-", "-">>
       \/ StartsWith(arg, <<"-", "-">>)
    THEN <<arg>>
    ELSE LET chars == SubSeq(arg, 2, Len(arg))
         IN IF Len(chars) = 1 THEN <<arg>>
            ELSE [i \in 1..Len(chars) |-> <<"-", chars[i]>>]

expand_flags(arg) ==
    IF \/ ~StartsWith(arg, <<"-">>)
       \/ arg = <<"-">>
       \/ arg = <<"-", "-">>
       \/ StartsWith(arg, <<"-", "-">>)
       \/ Contains(arg, "=")
    THEN <<arg>>
    ELSE LET chars == SubSeq(arg, 2, Len(arg))
         IN IF Len(chars) = 1 THEN <<arg>>
            ELSE [i \in 1..Len(chars) |-> <<"-", chars[i]>>]

\* the loop body shared by extract_args_from_suffix and collect_remaining_args
RECURSIVE args_loop(_, _, _)
args_loop(items, i, end_of_options) ==
    IF i > Len(items) THEN <<>>
    ELSE IF items[i].kind # "Word" THEN args_loop(items, i + 1, end_of_options)
    ELSE LET text == items[i].text
         IN IF text = <<"-", "-">> THEN <<text>> \o args_loop(items, i + 1, TRUE)
            ELSE IF end_of_options THEN <<text>> \o args_loop(items, i + 1, TRUE)
            ELSE expand_flags(text) \o args_loop(items, i + 1, FALSE)

extract_args_from_suffix(suffix) == args_loop(suffix, 1, FALSE)

\* items: the suffix; i: the iterator's position (next item to be read)
collect_remaining_args(items, i) == args_loop(items, i, FALSE)

opt_u == <<"-", "u">>
opt_unset == <<"-", "-", "u", "n", "s", "e", "t">>
opt_C == <<"-", "C">>
opt_chdir == <<"-", "-", "c", "h", "d", "i", "r">>
opt_S == <<"-", "S">>
opt_split_string == <<"-", "-", "s", "p", "l", "i", "t", "-", "s", "t", "r", "i", "n", "g">>
opt_P == <<"-", "P">>
opt_a == <<"-", "a">>

consuming_options_for(wrapper_basename) ==
    CASE wrapper_basename = <<"e","n","v">> ->
            {opt_u, opt_unset, opt_C, opt_chdir, opt_S, opt_split_string, opt_P}
      [] wrapper_basename = <<"e","x","e","c">> -> {opt_a}
      [] OTHER -> {}

SPLIT_STRING_OPTIONS == {opt_S, opt_split_string}

NoPayload == [some |-> FALSE, value |-> <<>>]
Some(v) == [some |-> TRUE, value |-> v]

extract_inline_split_string(text) ==
    LET long == opt_split_string \o <<"=">>
    IN IF StartsWith(text, long) /\ StripPrefix(text, long) # <<>>
       THEN Some(StripPrefix(text, long))
       ELSE IF /\ StartsWith(text, opt_S)
               /\ StripPrefix(text, opt_S) # <<>>
               /\ ~StartsWith(StripPrefix(text, opt_S), <<" ">>)
       THEN Some(StripPrefix(text, opt_S))
       ELSE NoPayload

strip_outer_quotes(s) ==
    IF /\ Len(s) >= 2
       /\ \/ (s[1] = "\"" /\ s[Len(s)] = "\"")
          \/ (s[1] = "'" /\ s[Len(s)] = "'")
    THEN SubSeq(s, 2, Len(s) - 1)
    ELSE s

RECURSIVE parse(_), visit_program(_), visit_command(_),
          extract_wrapped_programs(_, _, _), find_next_program(_, _, _, _, _)
RECURSIVE visit_compound(_), visit_compound_without_conditions(_),
          visit_compound_list(_), visit_and_or_list(_), visit_pipeline(_)

\* command: [text |-> the string, ast |-> what brush-parser yields for it]
parse(command) ==
    IF TrimIsEmpty(command.text) THEN Ok(<<>>)
    ELSE IF ~command.ast.ok THEN Err
    ELSE Ok(visit_program(command.ast.program))

\* visit_program, visit_and_or_list, visit_pipeline: every command in order
visit_program(program) ==
    IF program = <<>> THEN <<>>
    ELSE visit_command(Head(program)) \o visit_program(Tail(program))

\* result: [kind, prog, segments, next]; next is the iterator's position after
\* the call.  skip_next and parse_next_as_command are the loop's two flags.
find_next_program(items, i, consuming_options, skip_next, parse_next_as_command) ==
    IF i > Len(items) THEN [kind |-> "None", prog |-> <<>>, segments |-> <<>>, next |-> i]
    ELSE
    LET item == items[i] IN
    IF skip_next THEN
        LET parsed == IF parse_next_as_command /\ item.kind = "Word"
                      THEN parse([text |-> strip_outer_quotes(item.text),
                                  ast |-> item.payload_ast])
                      ELSE Err
        IN IF parsed.ok /\ parsed.segs # <<>>
           THEN [kind |-> "FromSplitString", prog |-> <<>>,
                 segments |-> parsed.segs, next |-> i + 1]
           ELSE find_next_program(items, i + 1, consuming_options, FALSE, FALSE)
    ELSE IF item.kind # "Word"
    THEN find_next_program(items, i + 1, consuming_options, FALSE, FALSE)
    ELSE
    LET text == item.text IN
    IF StartsWith(text, <<"-">>) THEN
        LET payload == extract_inline_split_string(text) IN
        IF payload.some THEN
            LET parsed == parse([text |-> strip_outer_quotes(payload.value),
                                 ast |-> item.payload_ast])
            IN IF parsed.ok /\ parsed.segs # <<>>
               THEN [kind |-> "FromSplitString", prog |-> <<>>,
                     segments |-> parsed.segs, next |-> i + 1]
               ELSE find_next_program(items, i + 1, consuming_options, FALSE, FALSE)
        ELSE IF text \in consuming_options
        THEN find_next_program(items, i + 1, consuming_options, TRUE,
                               text \in SPLIT_STRING_OPTIONS)
        ELSE find_next_program(items, i + 1, consuming_options, FALSE, FALSE)
    ELSE IF Contains(text, "=")
    THEN find_next_program(items, i + 1, consuming_options, FALSE, FALSE)
    ELSE IF text # <<>>
    THEN [kind |-> "Single", prog |-> text, segments |-> <<>>, next |-> i + 1]
    ELSE find_next_program(items, i + 1, consuming_options, FALSE, FALSE)

\* faulty variant: the words after a split string go to the first segment
extract_wrapped_programs_trailing_to_first(items, i, current_wrapper) ==
    LET np == find_next_program(items, i, consuming_options_for(current_wrapper),
                                FALSE, FALSE)
    IN CASE np.kind = "Single" ->
              LET basename == file_name_or(np.prog)
              IN IF basename \in TRANSPARENT_WRAPPERS
                 THEN extract_wrapped_programs(items, np.next, basename)
                 ELSE << [program |-> ProgramName_new(np.prog),
                          args |-> collect_remaining_args(items, np.next)] >>
         [] np.kind = "FromSplitString" ->
              LET trailing == collect_remaining_args(items, np.next)
              IN [k \in 1..Len(np.segments) |->
                    IF k = 1
                    THEN [np.segments[k] EXCEPT !.args = @ \o trailing]
                    ELSE np.segments[k]]
         [] OTHER -> <<>>

\* the loop of extract_wrapped_programs, entered with the iterator at i
extract_wrapped_programs(items, i, current_wrapper) ==
    LET np == find_next_program(items, i, consuming_options_for(current_wrapper),
                                FALSE, FALSE)
    IN CASE np.kind = "Single" ->
              LET basename == file_name_or(np.prog)
              IN IF basename \in TRANSPARENT_WRAPPERS
                 THEN extract_wrapped_programs(items, np.next, basename)
                 ELSE << [program |-> ProgramName_new(np.prog),
                          args |-> collect_remaining_args(items, np.next)] >>
         [] np.kind = "FromSplitString" ->
              LET trailing == collect_remaining_args(items, np.next)
                  n == Len(np.segments)
              IN [k \in 1..n |->
                    IF k = n
                    THEN [np.segments[k] EXCEPT !.args = @ \o trailing]
                    ELSE np.segments[k]]
         [] OTHER -> <<>>

visit_command(command) ==
    IF command.type = "Simple" THEN
        IF command.word = <<>> THEN <<>>
        ELSE
        LET name == command.word
            basename == file_name_or(name)
            unwrapped == IF basename \in TRANSPARENT_WRAPPERS /\ command.suffix # <<>>
                         THEN extract_wrapped_programs(command.suffix, 1, basename)
                         ELSE <<>>
        IN IF unwrapped # <<>> THEN unwrapped
           ELSE << [program |-> ProgramName_new(name),
                    args |-> extract_args_from_suffix(command.suffix)] >>
    ELSE IF command.type = "Compound" THEN visit_compound(command.compound)
    ELSE IF command.type = "Function" THEN visit_compound(command.body)
    ELSE <<>>   \* Arithmetic (( )) and ExtendedTest [[ ]] execute no program

\* for command in &pipeline.seq
visit_pipeline(pipeline) ==
    IF pipeline = <<>> THEN <<>>
    ELSE visit_command(Head(pipeline)) \o visit_pipeline(Tail(pipeline))

\* list: [first |-> pipeline, additional |-> the pipelines after && and ||]
visit_and_or_list(list) ==
    visit_pipeline(list.first) \o
    (IF list.additional = <<>> THEN <<>>
     ELSE visit_and_or_list([first |-> Head(list.additional),
                             additional |-> Tail(list.additional)]))

visit_compound_list(list) ==
    IF list = <<>> THEN <<>>
    ELSE visit_and_or_list(Head(list)) \o visit_compound_list(Tail(list))

\* the else clauses of an if, each [has_condition, condition, body]
RECURSIVE visit_elses(_)
visit_elses(elses) ==
    IF elses = <<>> THEN <<>>
    ELSE (IF Head(elses).has_condition THEN visit_compound_list(Head(elses).condition)
          ELSE <<>>)
         \o visit_compound_list(Head(elses).body)
         \o visit_elses(Tail(elses))

\* the items of a case, each [has_cmd, cmd]
RECURSIVE visit_cases(_)
visit_cases(cases) ==
    IF cases = <<>> THEN <<>>
    ELSE (IF Head(cases).has_cmd THEN visit_compound_list(Head(cases).cmd) ELSE <<>>)
         \o visit_cases(Tail(cases))

\* faulty variant: the conditions of while, until and if are not walked
visit_compound_without_conditions(command) ==
    CASE command.kind \in {"BraceGroup", "Subshell"} -> visit_compound_list(command.list)
      [] command.kind \in {"ForClause", "ArithmeticForClause"} ->
            visit_compound_list(command.body)
      [] command.kind \in {"WhileClause", "UntilClause"} ->
            visit_compound_list(command.body)
      [] command.kind = "IfClause" ->
            visit_compound_list(command.then) \o visit_elses(command.elses)
      [] command.kind = "CaseClause" -> visit_cases(command.cases)
      [] OTHER -> <<>>

visit_compound(command) ==
    CASE command.kind \in {"BraceGroup", "Subshell"} -> visit_compound_list(command.list)
      [] command.kind \in {"ForClause", "ArithmeticForClause"} ->
            visit_compound_list(command.body)
      [] command.kind \in {"WhileClause", "UntilClause"} ->
            visit_compound_list(command.condition) \o visit_compound_list(command.body)
      [] command.kind = "IfClause" ->
            visit_compound_list(command.condition)
            \o visit_compound_list(command.then)
            \o visit_elses(command.elses)
      [] command.kind = "CaseClause" -> visit_cases(command.cases)
      [] OTHER -> <<>>   \* Arithmetic (( ))

(***************************************************************************)
(* Glob matching (globset, as called from src/path.rs and                  *)
(* src/config/rule.rs).  Patterns of the model use literals, ?, *, and **  *)
(* and the unclosed [ or { that makes compilation fail.                    *)
(***************************************************************************)

\* Glob::new / GlobBuilder::build succeeds
glob_compiles(p) ==
    /\ \A i \in 1..Len(p) : p[i] = "[" => \E k \in (i+1)..Len(p) : p[k] = "]"
    /\ \A i \in 1..Len(p) : p[i] = "{" => \E k \in (i+1)..Len(p) : p[k] = "}"

NoSlash(s, from, to) == \A k \in from..to : s[k] # "/"

\* does p[i..] match s[j..]; literal_separator: * and ? never match '/'
RECURSIVE glob_match_at(_, _, _, _, _)
glob_match_at(p, i, s, j, literal_separator) ==
    IF i > Len(p) THEN j > Len(s)
    ELSE IF /\ p[i] = "/" /\ i + 2 = Len(p) /\ p[i+1] = "*" /\ p[i+2] = "*"
    THEN \* RecursiveSuffix  /.*
         j <= Len(s) /\ s[j] = "/"
    ELSE IF /\ p[i] = "/" /\ i + 3 <= Len(p)
            /\ p[i+1] = "*" /\ p[i+2] = "*" /\ p[i+3] = "/"
    THEN \* RecursiveZeroOrMore  (?:/|/.*/)
         /\ j <= Len(s) /\ s[j] = "/"
         /\ \/ glob_match_at(p, i + 4, s, j + 1, literal_separator)
            \/ \E k \in (j+1)..Len(s) :
                  s[k] = "/" /\ glob_match_at(p, i + 4, s, k + 1, literal_separator)
    ELSE IF /\ i = 1 /\ Len(p) >= 2 /\ p[1] = "*" /\ p[2] = "*"
            /\ (Len(p) = 2 \/ p[3] = "/")
    THEN \* RecursivePrefix  (?:/?|.*/), and the whole-pattern ** matches all
         IF Len(p) = 2 THEN TRUE
         ELSE \/ glob_match_at(p, 4, s, j, literal_separator)
              \/ \E k \in j..Len(s) :
                    s[k] = "/" /\ glob_match_at(p, 4, s, k + 1, literal_separator)
    ELSE IF p[i] = "*"
    THEN \* ZeroOrMore
         \E k \in j..(Len(s) + 1) :
            /\ literal_separator => NoSlash(s, j, k - 1)
            /\ glob_match_at(p, i + 1, s, k, literal_separator)
    ELSE IF p[i] = "?"
    THEN /\ j <= Len(s)
         /\ literal_separator => s[j] # "/"
         /\ glob_match_at(p, i + 1, s, j + 1, literal_separator)
    ELSE /\ j <= Len(s)
         /\ s[j] = p[i]
         /\ glob_match_at(p, i + 1, s, j + 1, literal_separator)

\* PositionalPattern.matcher.is_match, compiled by compile_glob
pattern_is_match(pattern, arg) == glob_match_at(pattern, 1, arg, 1, TRUE)

(***************************************************************************)
(* Bash rules: matching and tier lookup                                    *)
(*   BashRule == [program, required_flags, optional_flags, subcommand,     *)
(*                positionals, required_arguments, subcommands]            *)
(***************************************************************************)

RECURSIVE classify_loop(_, _, _)
classify_loop(args, i, end_of_options) ==
    IF i > Len(args) THEN [flags |-> {}, positionals |-> <<>>]
    ELSE
    LET arg == args[i] IN
    IF end_of_options THEN
        LET r == classify_loop(args, i + 1, TRUE)
        IN [r EXCEPT !.positionals = <<arg>> \o @]
    ELSE IF arg = <<"-", "-">> THEN classify_loop(args, i + 1, TRUE)
    ELSE LET r == classify_loop(args, i + 1, FALSE)
         IN IF StartsWith(arg, <<"-">>) /\ arg # <<"-">>
            THEN [r EXCEPT !.flags = @ \cup {arg}]
            ELSE [r EXCEPT !.positionals = <<arg>> \o @]

\* faulty variant: the lone dash counts as a flag
RECURSIVE classify_loop_dash_is_flag(_, _, _)
classify_loop_dash_is_flag(args, i, end_of_options) ==
    IF i > Len(args) THEN [flags |-> {}, positionals |-> <<>>]
    ELSE
    LET arg == args[i] IN
    IF end_of_options THEN
        LET r == classify_loop_dash_is_flag(args, i + 1, TRUE)
        IN [r EXCEPT !.positionals = <<arg>> \o @]
    ELSE IF arg = <<"-", "-">> THEN classify_loop_dash_is_flag(args, i + 1, TRUE)
    ELSE LET r == classify_loop_dash_is_flag(args, i + 1, FALSE)
         IN IF StartsWith(arg, <<"-">>)
            THEN [r EXCEPT !.flags = @ \cup {arg}]
            ELSE [r EXCEPT !.positionals = <<arg>> \o @]

classify_args_dash_is_flag(args) == classify_loop_dash_is_flag(args, 1, FALSE)

classify_args(args) == classify_loop(args, 1, FALSE)

\* chain.iter().zip(actual).all(==) after the length check
IsOrderedPrefix(chain, actual) ==
    /\ Len(actual) >= Len(chain)
    /\ \A k \in 1..Len(chain) : chain[k] = actual[k]

program_matches(rule, segment) == rule.program = segment.program

\* faulty variant: every optional flag has to be present
flags_match_optional_all(rule, segment) ==
    LET actual_flags == classify_args(segment.args).flags
    IN /\ \A f \in rule.required_flags : f \in actual_flags
       /\ \A f \in rule.optional_flags : f \in actual_flags

flags_match(rule, segment) ==
    LET actual_flags == classify_args(segment.args).flags
    IN /\ \A f \in rule.required_flags : f \in actual_flags
       /\ rule.optional_flags # {} => \E f \in rule.optional_flags : f \in actual_flags

subcommand_matches(rule, segment) ==
    \/ rule.subcommand = <<>>
    \/ IsOrderedPrefix(rule.subcommand, classify_args(segment.args).positionals)

positionals_match(rule, segment) ==
    \/ rule.positionals = <<>>
    \/ LET actual == classify_args(segment.args).positionals
       IN \A k \in 1..Len(rule.positionals) :
             \E a \in 1..Len(actual) : pattern_is_match(rule.positionals[k], actual[a])

RECURSIVE find_argument_value_from(_, _, _)
find_argument_value_from(args, i, req) ==
    IF i > Len(args) THEN FALSE
    ELSE
    LET arg == args[i] IN
    IF arg = <<"-", "-">> THEN FALSE
    ELSE IF arg = req.flag THEN
        IF /\ i + 1 <= Len(args)
           /\ (~StartsWith(args[i+1], <<"-">>) \/ args[i+1] = <<"-">>)
           /\ pattern_is_match(req.value, args[i+1])
        THEN TRUE
        ELSE find_argument_value_from(args, i + 1, req)
    ELSE IF /\ StartsWith(arg, req.flag)
            /\ StartsWith(StripPrefix(arg, req.flag), <<"=">>)
            /\ pattern_is_match(req.value, StripPrefix(arg, req.flag \o <<"=">>))
    THEN TRUE
    ELSE find_argument_value_from(args, i + 1, req)

\* faulty variant: the search goes on past --
RECURSIVE find_argument_value_past_end_from(_, _, _)
find_argument_value_past_end_from(args, i, req) ==
    IF i > Len(args) THEN FALSE
    ELSE
    LET arg == args[i] IN
    IF arg = req.flag THEN
        IF /\ i + 1 <= Len(args)
           /\ (~StartsWith(args[i+1], <<"-">>) \/ args[i+1] = <<"-">>)
           /\ pattern_is_match(req.value, args[i+1])
        THEN TRUE
        ELSE find_argument_value_past_end_from(args, i + 1, req)
    ELSE IF /\ StartsWith(arg, req.flag)
            /\ StartsWith(StripPrefix(arg, req.flag), <<"=">>)
            /\ pattern_is_match(req.value, StripPrefix(arg, req.flag \o <<"=">>))
    THEN TRUE
    ELSE find_argument_value_past_end_from(args, i + 1, req)

find_argument_value_past_end(args, req) == find_argument_value_past_end_from(args, 1, req)

find_argument_value(args, req) == find_argument_value_from(args, 1, req)

required_arguments_match(rule, segment) ==
    \A k \in 1..Len(rule.required_arguments) :
        find_argument_value(segment.args, rule.required_arguments[k])

subcommands_match(rule, segment) ==
    \/ rule.subcommands = <<>>
    \/ LET actual == classify_args(segment.args).positionals
       IN \E k \in 1..Len(rule.subcommands) : IsOrderedPrefix(rule.subcommands[k], actual)

matches(rule, segment) ==
    /\ program_matches(rule, segment)
    /\ flags_match(rule, segment)
    /\ subcommand_matches(rule, segment)
    /\ positionals_match(rule, segment)
    /\ required_arguments_match(rule, segment)
    /\ subcommands_match(rule, segment)

\* faulty variant: the ask tier is consulted before the deny tier
BashConfig_lookup_ask_first(bash, segment) ==
    IF \E k \in 1..Len(bash.ask) : matches(bash.ask[k], segment) THEN Ask
    ELSE IF \E k \in 1..Len(bash.deny) : matches(bash.deny[k], segment) THEN Deny
    ELSE IF \E k \in 1..Len(bash.allow) : matches(bash.allow[k], segment) THEN Allow
    ELSE None

\* BashConfig::lookup; bash: [deny, ask, allow], each a sequence of rules
BashConfig_lookup(bash, segment) ==
    IF \E k \in 1..Len(bash.deny) : matches(bash.deny[k], segment) THEN Deny
    ELSE IF \E k \in 1..Len(bash.ask) : matches(bash.ask[k], segment) THEN Ask
    ELSE IF \E k \in 1..Len(bash.allow) : matches(bash.allow[k], segment) THEN Allow
    ELSE None

(***************************************************************************)
(* Paths and file rules                                                    *)
(*   home       == [set: BOOLEAN, value: chars]     ($HOME)                *)
(*   FileRule   == [raw_pattern, home_expanded_pattern: [ok, value],       *)
(*                  operations]                                            *)
(*   FilesConfig == [deny, ask, allow], each a sequence of FileRule        *)
(***************************************************************************)

FileOperation == {"read", "write", "edit", "glob", "grep"}

PathOk(v) == [ok |-> TRUE, value |-> v]
HomeNotSet == [ok |-> FALSE, value |-> <<>>]

\* the component loop of NormalizedPath::new: "" and "." are skipped, ".."
\* pops (a pop on an empty stack does nothing), anything else is pushed
RECURSIVE collapse_components(_, _)
collapse_components(parts, components) ==
    IF parts = <<>> THEN components
    ELSE LET part == Head(parts)
         IN IF part = <<>> \/ part = <<".">>
            THEN collapse_components(Tail(parts), components)
            ELSE IF part = <<".", ".">>
            THEN collapse_components(Tail(parts),
                    IF components = <<>> THEN <<>>
                    ELSE SubSeq(components, 1, Len(components) - 1))
            ELSE collapse_components(Tail(parts), Append(components, part))

\* faulty variant: a relative path is resolved against $HOME when it is set
NormalizedPath_new_relative_to_home(raw, cwd, env_home) ==
    IF StartsWith(raw, <<"~">>) /\ ~env_home.set THEN HomeNotSet
    ELSE
    LET path1 == IF StartsWith(raw, <<"~">>)
                 THEN env_home.value \o StripPrefix(raw, <<"~">>)
                 ELSE raw
        base == IF env_home.set THEN env_home.value ELSE cwd
        path2 == IF StartsWith(path1, <<"/">>) THEN path1 ELSE base \o <<"/">> \o path1
        components == collapse_components(SplitOn(path2, "/"), <<>>)
    IN PathOk(IF components = <<>> THEN <<"/">>
              ELSE <<"/">> \o JoinWith(components, <<"/">>))

\* NormalizedPath::new(raw, cwd), reading $HOME when raw starts with '~'
NormalizedPath_new(raw, cwd, env_home) ==
    IF StartsWith(raw, <<"~">>) /\ ~env_home.set THEN HomeNotSet
    ELSE
    LET path1 == IF StartsWith(raw, <<"~">>)
                 THEN env_home.value \o StripPrefix(raw, <<"~">>)
                 ELSE raw
        path2 == IF StartsWith(path1, <<"/">>) THEN path1 ELSE cwd \o <<"/">> \o path1
        components == collapse_components(SplitOn(path2, "/"), <<>>)
    IN PathOk(IF components = <<>> THEN <<"/">>
              ELSE <<"/">> \o JoinWith(components, <<"/">>))

HomeToken == <<"<", "h", "o", "m", "e", ">">>
CwdToken == <<"<", "c", "w", "d", ">">>

RECURSIVE ContainsSub(_, _)
ContainsSub(s, sub) ==
    IF Len(s) < Len(sub) THEN FALSE
    ELSE StartsWith(s, sub) \/ ContainsSub(Tail(s), sub)

\* expand_home(pattern), run once when the rule is loaded
expand_home(pattern, env_home) ==
    IF ~ContainsSub(pattern, HomeToken) /\ ~StartsWith(pattern, <<"~">>)
    THEN PathOk(pattern)
    ELSE IF ~env_home.set THEN HomeNotSet
    ELSE LET replaced == Replace(pattern, HomeToken, env_home.value)
         IN IF StartsWith(replaced, <<"~">>)
            THEN PathOk(env_home.value \o StripPrefix(replaced, <<"~">>))
            ELSE PathOk(replaced)

\* crate::path::matches: Err when the glob does not compile
path_matches(path, expanded_pattern) ==
    IF ~glob_compiles(expanded_pattern) THEN [ok |-> FALSE, value |-> FALSE]
    ELSE [ok |-> TRUE, value |-> glob_match_at(expanded_pattern, 1, path, 1, FALSE)]

\* faulty variant: an expansion error counts whatever the rule's operations
has_expansion_error_any_operation(rules, operation) ==
    \E k \in 1..Len(rules) : ~rules[k].home_expanded_pattern.ok

has_expansion_error(rules, operation) ==
    \E k \in 1..Len(rules) :
        operation \in rules[k].operations /\ ~rules[k].home_expanded_pattern.ok

\* faulty variant: a pattern that does not compile never matches
rule_matches_path_error_never_matches(rule, normalized_path, operation, cwd, error_means_match) ==
    IF operation \notin rule.operations THEN FALSE
    ELSE IF ~rule.home_expanded_pattern.ok THEN error_means_match
    ELSE LET expanded == Replace(rule.home_expanded_pattern.value, CwdToken, cwd)
             m == path_matches(normalized_path, expanded)
         IN m.ok /\ m.value

\* the closure of matches_any_rule, for one rule
rule_matches_path(rule, normalized_path, operation, cwd, error_means_match) ==
    IF operation \notin rule.operations THEN FALSE
    ELSE IF ~rule.home_expanded_pattern.ok THEN error_means_match
    ELSE LET expanded == Replace(rule.home_expanded_pattern.value, CwdToken, cwd)
             m == path_matches(normalized_path, expanded)
         IN IF m.ok THEN m.value ELSE error_means_match

matches_any_rule(rules, normalized_path, operation, cwd, error_means_match) ==
    \E k \in 1..Len(rules) :
        rule_matches_path(rules[k], normalized_path, operation, cwd, error_means_match)

\* config::match_rule::files::lookup
\* faulty variant: the ask tier is consulted before the deny tier
files_lookup_ask_before_deny(files, normalized_path, operation, cwd) ==
    IF \/ has_expansion_error(files.deny, operation)
       \/ has_expansion_error(files.ask, operation)
       \/ has_expansion_error(files.allow, operation)
    THEN Ask
    ELSE IF matches_any_rule(files.ask, normalized_path, operation, cwd, TRUE) THEN Ask
    ELSE IF matches_any_rule(files.deny, normalized_path, operation, cwd, TRUE) THEN Deny
    ELSE IF matches_any_rule(files.allow, normalized_path, operation, cwd, FALSE) THEN Allow
    ELSE None

files_lookup(files, normalized_path, operation, cwd) ==
    IF \/ has_expansion_error(files.deny, operation)
       \/ has_expansion_error(files.ask, operation)
       \/ has_expansion_error(files.allow, operation)
    THEN Ask
    ELSE IF matches_any_rule(files.deny, normalized_path, operation, cwd, TRUE) THEN Deny
    ELSE IF matches_any_rule(files.ask, normalized_path, operation, cwd, TRUE) THEN Ask
    ELSE IF matches_any_rule(files.allow, normalized_path, operation, cwd, FALSE) THEN Allow
    ELSE None

(***************************************************************************)
(* Tool-use protocol                                                       *)
(*   tool_input == [command, file_path, path], each a JSON value           *)
(*   JSON value == [type: "absent" | "string" | "other", text, ast]        *)
(*   (ast: what the shell parser yields for text; used for command only)   *)
(***************************************************************************)

NoString == [some |-> FALSE, value |-> [text |-> <<>>, ast |-> ParseError]]

\* tool_input.get(field).and_then(|v| v.as_str())
get_as_str(v) ==
    IF v.type = "string" THEN Some([text |-> v.text, ast |-> v.ast]) ELSE NoString

\* extract_string: additionally filters out the empty string
extract_string(v) ==
    IF v.type = "string" /\ v.text # <<>>
    THEN Some([text |-> v.text, ast |-> v.ast]) ELSE NoString

FileTools == {"Read", "Write", "Edit", "Glob", "Grep"}

ToolUse_parse(tool_name, tool_input) ==
    CASE tool_name = "Bash" ->
            [variant |-> "Bash", field |-> get_as_str(tool_input.command)]
      [] tool_name \in {"Read", "Write", "Edit"} ->
            [variant |-> tool_name, field |-> extract_string(tool_input.file_path)]
      [] tool_name \in {"Glob", "Grep"} ->
            [variant |-> tool_name, field |-> extract_string(tool_input.path)]
      [] OTHER -> [variant |-> "Unknown", field |-> NoString]

file_operation(tool_use) ==
    CASE tool_use.variant = "Read" -> "read"
      [] tool_use.variant = "Write" -> "write"
      [] tool_use.variant = "Edit" -> "edit"
      [] tool_use.variant = "Glob" -> "glob"
      [] tool_use.variant = "Grep" -> "grep"
      [] OTHER -> None

file_paths(tool_use, cwd) ==
    IF tool_use.variant \in {"Read", "Write", "Edit"}
    THEN IF tool_use.field.some THEN <<tool_use.field.value.text>> ELSE <<>>
    ELSE IF tool_use.field.some THEN <<tool_use.field.value.text>> ELSE <<cwd>>

(***************************************************************************)
(* Decision engine                                                         *)
(*   Config == [present, bash: [some, value], files: [some, value]]        *)
(* An evaluation yields the decision (None: no opinion, the {} response)   *)
(* together with the return statement that produced it and the             *)
(* intermediate values of the run.                                         *)
(***************************************************************************)

Outcome(decision, stage, entities, per_entity, aggregated) ==
    [decision |-> decision, stage |-> stage, entities |-> entities,
     per_entity |-> per_entity, aggregated |-> aggregated]

\* HookOutput::ask(..) / the early `None`s, returned before any lookup
Early(decision, stage) == Outcome(decision, stage, <<>>, <<>>, None)

\* the final `match aggregated` of evaluate_bash and evaluate_file_tool
finish(entities, per_entity, mode) ==
    LET aggregated == aggregate_decisions(per_entity)
    IN IF aggregated = None
       THEN Outcome(None, "no_opinion", entities, per_entity, None)
       ELSE Outcome(apply_mode_modifier(aggregated, mode), "rule_decision",
                    entities, per_entity, aggregated)

\* faulty variant: the bash section is looked for before the command is examined
evaluate_bash_section_first(command, hook_input, cfg) ==
    IF ~cfg.bash.some THEN Early(None, "no_bash_section")
    ELSE IF ~command.some THEN Early(Ask, "missing_command")
    ELSE IF TrimIsEmpty(command.value.text) THEN Early(Ask, "empty_command")
    ELSE
    LET parsed == parse(command.value) IN
    IF ~parsed.ok THEN Early(Ask, "parse_error")
    ELSE IF parsed.segs = <<>> THEN Early(Ask, "no_segments")
    ELSE LET per_program == [k \in 1..Len(parsed.segs) |->
                                BashConfig_lookup(cfg.bash.value, parsed.segs[k])]
         IN finish(parsed.segs, per_program, hook_input.permission_mode)

\* faulty variant: the early Asks pass through the mode modifier as well
evaluate_bash_modified_early(command, hook_input, cfg) ==
    LET early_ask(stage) ==
            Early(apply_mode_modifier(Ask, hook_input.permission_mode), stage)
    IN
    IF ~command.some THEN early_ask("missing_command")
    ELSE IF TrimIsEmpty(command.value.text) THEN early_ask("empty_command")
    ELSE
    LET parsed == parse(command.value) IN
    IF ~parsed.ok THEN early_ask("parse_error")
    ELSE IF parsed.segs = <<>> THEN early_ask("no_segments")
    ELSE IF ~cfg.bash.some THEN Early(None, "no_bash_section")
    ELSE LET per_program == [k \in 1..Len(parsed.segs) |->
                                BashConfig_lookup(cfg.bash.value, parsed.segs[k])]
         IN finish(parsed.segs, per_program, hook_input.permission_mode)

evaluate_bash(command, hook_input, cfg) ==
    IF ~command.some THEN Early(Ask, "missing_command")
    ELSE IF TrimIsEmpty(command.value.text) THEN Early(Ask, "empty_command")
    ELSE
    LET parsed == parse(command.value) IN
    IF ~parsed.ok THEN Early(Ask, "parse_error")
    ELSE IF parsed.segs = <<>> THEN Early(Ask, "no_segments")
    ELSE IF ~cfg.bash.some THEN Early(None, "no_bash_section")
    ELSE LET per_program == [k \in 1..Len(parsed.segs) |->
                                BashConfig_lookup(cfg.bash.value, parsed.segs[k])]
         IN finish(parsed.segs, per_program, hook_input.permission_mode)

\* faulty variant: the paths are examined before the files section is looked for
evaluate_file_tool_paths_first(tool_use, hook_input, cfg, env_home) ==
    LET operation == file_operation(tool_use)
        paths == file_paths(tool_use, hook_input.cwd)
    IN IF paths = <<>> THEN Early(Ask, "no_file_path")
       ELSE IF ~cfg.files.some THEN Early(None, "no_files_section")
       ELSE LET per_path == [k \in 1..Len(paths) |->
                    LET normalized == NormalizedPath_new(paths[k], hook_input.cwd, env_home)
                    IN IF normalized.ok
                       THEN files_lookup(cfg.files.value, normalized.value,
                                         operation, hook_input.cwd)
                       ELSE Ask]
            IN finish(paths, per_path, hook_input.permission_mode)

evaluate_file_tool(tool_use, hook_input, cfg, env_home) ==
    IF ~cfg.files.some THEN Early(None, "no_files_section")
    ELSE
    LET operation == file_operation(tool_use)
        paths == file_paths(tool_use, hook_input.cwd)
    IN IF paths = <<>> THEN Early(Ask, "no_file_path")
       ELSE LET per_path == [k \in 1..Len(paths) |->
                    LET normalized == NormalizedPath_new(paths[k], hook_input.cwd, env_home)
                    IN IF normalized.ok
                       THEN files_lookup(cfg.files.value, normalized.value,
                                         operation, hook_input.cwd)
                       ELSE Ask]
            IN finish(paths, per_path, hook_input.permission_mode)

\* the dispatch on the ToolUse variant
dispatch(hook_input, cfg, env_home) ==
    LET tool_use == ToolUse_parse(hook_input.tool_name, hook_input.tool_input)
    IN CASE tool_use.variant = "Bash" -> evaluate_bash(tool_use.field, hook_input, cfg)
         [] tool_use.variant \in FileTools ->
                evaluate_file_tool(tool_use, hook_input, cfg, env_home)
         [] OTHER -> Early(None, "unknown_tool")

\* faulty variant: the tool is dispatched without looking for a config first
evaluate_dispatch_without_config(hook_input, cfg, env_home) ==
    dispatch(hook_input, cfg, env_home)

evaluate(hook_input, cfg, env_home) ==
    IF ~cfg.present THEN Early(Ask, "no_config")
    ELSE dispatch(hook_input, cfg, env_home)

(***************************************************************************)
(* Config loading: file rules get their home_expanded_pattern once         *)
(***************************************************************************)

EmptyTiers == [deny |-> <<>>, ask |-> <<>>, allow |-> <<>>]
NoSection == [some |-> FALSE, value |-> EmptyTiers]
NoConfig == [present |-> FALSE, bash |-> NoSection, files |-> NoSection]

\* FileRule construction in parse_flat_rule / parse_path_block
make_file_rule(raw_rule, env_home) ==
    [raw_pattern |-> raw_rule.raw_pattern,
     home_expanded_pattern |-> expand_home(raw_rule.raw_pattern, env_home),
     operations |-> raw_rule.operations]

load_tier(raw_rules, env_home) ==
    [k \in 1..Len(raw_rules) |-> make_file_rule(raw_rules[k], env_home)]

load_config(src, env_home) ==
    IF ~src.present THEN NoConfig
    ELSE [present |-> TRUE,
          bash |-> src.bash,
          files |-> IF ~src.files.some THEN NoSection
                    ELSE Some([deny |-> load_tier(src.files.value.deny, env_home),
                               ask |-> load_tier(src.files.value.ask, env_home),
                               allow |-> load_tier(src.files.value.allow, env_home)])]

(***************************************************************************)
(* Input universe: words, commands, rules                                  *)
(***************************************************************************)

MaxSegments == 2    \* simple commands in one && list
MaxOptions == 1     \* option groups between a wrapper and the wrapped program
MaxDecisions == 3   \* length of a per-entity decision list
MaxWrittenRules == 3 \* rule nodes written in one section of a config

w_rm == <<"r", "m">>
w_bin_rm == <<"/", "b", "i", "n", "/", "r", "m">>
w_git == <<"g", "i", "t">>
w_ls == <<"l", "s">>
w_docker == <<"d", "o", "c", "k", "e", "r">>
w_env == <<"e", "n", "v">>
w_usr_bin_env == <<"/", "u", "s", "r", "/", "b", "i", "n", "/", "e", "n", "v">>
w_command == <<"c", "o", "m", "m", "a", "n", "d">>
w_nohup == <<"n", "o", "h", "u", "p">>
w_exec == <<"e", "x", "e", "c">>
w_builtin == <<"b", "u", "i", "l", "t", "i", "n">>

a_rf == <<"-", "r", "f">>
a_r == <<"-", "r">>
a_f == <<"-", "f">>
a_root == <<"/">>
a_status == <<"s", "t", "a", "t", "u", "s">>
a_push == <<"p", "u", "s", "h">>
a_run == <<"r", "u", "n">>
a_x == <<"x">>
a_name == <<"N">>
a_assign == <<"A", "=", "1">>
a_i == <<"-", "i">>
a_iu == <<"-", "i", "u">>
a_c == <<"-", "c">>
a_la == <<"-", "l", "a">>
a_p == <<"-", "p">>
a_dashdash == <<"-", "-">>

Simple(word, suffix) == [type |-> "Simple", word |-> word, suffix |-> suffix]

\* an unquoted word; parsed on its own it is a command of that one word
\* (an assignment when it contains '=')
Word(text) ==
    [kind |-> "Word", text |-> text,
     payload_ast |-> Parsed(<< Simple(IF Contains(text, "=") THEN <<>> ELSE text, <<>>) >>)]

Words(texts) == [k \in 1..Len(texts) |-> Word(texts[k])]

IoRedirect(text) == [kind |-> "IoRedirect", text |-> text, payload_ast |-> ParseError]

\* the double-quoted word "w1 w2 ..": its content parses to the command w1 w2 ..
Quoted(texts) ==
    [kind |-> "Word", text |-> <<"\"">> \o JoinWith(texts, <<" ">>) \o <<"\"">>,
     payload_ast |-> Parsed(<< Simple(Head(texts), Words(Tail(texts))) >>)]

\* a quoted word whose content is not a valid command:  "rm ("
QuotedBad ==
    [kind |-> "Word", text |-> <<"\"", "r", "m", " ", "(", "\"">>,
     payload_ast |-> ParseError]

\* the empty quoted word ""
QuotedEmpty == [kind |-> "Word", text |-> <<"\"", "\"">>, payload_ast |-> Parsed(<<>>)]

\* prefix immediately followed by a word, as one token:  -S"rm -rf /"
Attached(prefix, item) == [item EXCEPT !.text = prefix \o @]

ItemTexts(items) == [k \in 1..Len(items) |-> items[k].text]

SimpleText(command) ==
    IF command.type = "Arithmetic" THEN <<"(", "(", "1", ")", ")">>
    ELSE IF command.type = "ExtendedTest" THEN <<"[", "[", " ", "x", " ", "]", "]">>
    ELSE IF command.word = <<>> THEN JoinWith(ItemTexts(command.suffix), <<" ">>)
    ELSE JoinWith(<<command.word>> \o ItemTexts(command.suffix), <<" ">>)

\* the JSON string of an && list of commands, with its AST
CommandString(commands) ==
    [type |-> "string",
     text |-> JoinWith([k \in 1..Len(commands) |-> SimpleText(commands[k])],
                       <<" ", "&", "&", " ">>),
     ast |-> Parsed(commands)]

JsonAbsent == [type |-> "absent", text |-> <<>>, ast |-> ParseError]
JsonNumber == [type |-> "other", text |-> <<>>, ast |-> ParseError]
JsonString(text) == [type |-> "string", text |-> text, ast |-> ParseError]

\* simple commands without wrapper
PlainCommands ==
    { Simple(w_git, Words(<<a_status>>)),
      Simple(w_git, Words(<<a_push>>)),
      Simple(w_rm, Words(<<a_rf, a_root>>)),
      Simple(w_rm, Words(<<a_x>>)),
      Simple(w_bin_rm, Words(<<a_r, a_x>>) \o <<IoRedirect(<<">", "o">>)>>),
      Simple(w_docker, Words(<<a_run>>)),
      Simple(w_ls, <<>>) }

\* commands from which no program is extracted
NoProgramCommands ==
    { [type |-> "Arithmetic"], [type |-> "ExtendedTest"],
      Simple(<<>>, <<[kind |-> "AssignmentWord", text |-> a_assign,
                      payload_ast |-> ParseError]>>) }

RECURSIVE SeqsUpTo(_, _)
SeqsUpTo(S, n) ==
    IF n = 0 THEN {<<>>}
    ELSE LET shorter == SeqsUpTo(S, n - 1)
         IN shorter \cup {Append(q, x) : q \in {r \in shorter : Len(r) = n - 1}, x \in S}

\* sequences without repetition
InjSeqsUpTo(S, n) == {q \in SeqsUpTo(S, n) : \A i, j \in 1..Len(q) : i # j => q[i] # q[j]}

\* the values of tool_input.command that reach the parser, and those that do not
DegenerateCommandValues ==
    { JsonAbsent, JsonNumber,
      [type |-> "string", text |-> <<>>, ast |-> Parsed(<<>>)],
      [type |-> "string", text |-> <<" ", "\t">>, ast |-> Parsed(<<>>)],
      [type |-> "string", text |-> <<"r", "m", " ", "(">>, ast |-> ParseError],
      [type |-> "string", text |-> <<"&", "&">>, ast |-> ParseError] }
    \cup { CommandString(<<c>>) : c \in NoProgramCommands }

ListCommandValues ==
    { CommandString(q) : q \in SeqsUpTo(PlainCommands, MaxSegments) \ {<<>>} }

\* option groups written between a wrapper and the program it launches
OptionGroups(wrapper) ==
    CASE file_name_or(wrapper) = w_env ->
            { Words(<<a_i>>), Words(<<opt_u, a_name>>), Words(<<opt_unset, a_name>>),
              Words(<<opt_C, a_root>>), Words(<<a_iu, a_name>>), Words(<<a_assign>>),
              <<Word(opt_S), Quoted(<<w_rm, a_rf, a_root>>)>>,
              <<Word(opt_S), QuotedBad>>,
              <<Word(opt_S), QuotedEmpty>>,
              <<Attached(opt_S, Quoted(<<w_rm>>))>>,
              <<Attached(opt_split_string \o <<"=">>, Word(w_rm))>>,
              Words(<<w_command>>) }
      [] file_name_or(wrapper) = w_exec ->
            { Words(<<a_c>>), Words(<<opt_a, a_name>>), Words(<<a_la, a_name>>) }
      [] file_name_or(wrapper) = w_command -> { Words(<<a_p>>), Words(<<a_dashdash>>) }
      [] OTHER -> {}

WrapperWords == {w_env, w_usr_bin_env, w_command, w_nohup, w_exec, w_builtin}
WrappedPrograms == {w_rm, w_bin_rm, w_git, w_ls}
WrappedArgs == { <<>>, Words(<<a_rf, a_root>>), Words(<<a_status>>) }

WrapperTails ==
    { <<>> } \cup { <<Word(x)>> \o args : x \in WrappedPrograms, args \in WrappedArgs }

WrapperCommandsOf(w) ==
    { Simple(w, Concat(groups) \o tail) :
        groups \in SeqsUpTo(OptionGroups(w), MaxOptions), tail \in WrapperTails }

WrapperCommands == UNION { WrapperCommandsOf(w) : w \in WrapperWords }

WrapperCommandValues == { CommandString(<<c>>) : c \in WrapperCommands }

\* bash rules as the loader builds them
BashRule(program) ==
    [program |-> program, required_flags |-> {}, optional_flags |-> {},
     subcommand |-> <<>>, positionals |-> <<>>, required_arguments |-> <<>>,
     subcommands |-> <<>>]

rule_rm == BashRule(w_rm)
rule_git == BashRule(w_git)
rule_docker == BashRule(w_docker)
\* from the rule string "rm -rf /"
rule_rm_rf_root == [BashRule(w_rm) EXCEPT !.required_flags = {a_r, a_f},
                                          !.subcommand = <<a_root>>]
\* "git" { subcommands "push" }
rule_git_push == [BashRule(w_git) EXCEPT !.subcommands = << <<a_push>> >>]

Tiers(deny, ask, allow) == [deny |-> deny, ask |-> ask, allow |-> allow]

BashSections ==
    { NoSection,
      Some(Tiers(<<rule_rm>>, <<rule_docker>>, <<rule_git>>)),
      Some(Tiers(<<rule_rm_rf_root>>, <<>>, <<rule_rm>>)),
      Some(Tiers(<<>>, <<rule_git_push>>, <<rule_git, rule_rm>>)),
      Some(Tiers(<<rule_git_push, rule_rm>>, <<>>, <<rule_git>>)),
      Some(EmptyTiers) }

WrapperBashSections ==
    { Some(Tiers(<<rule_rm>>, <<rule_docker>>, <<rule_git>>)),
      Some(Tiers(<<rule_rm_rf_root>>, <<>>, <<rule_rm>>)) }

\* file paths, patterns and rules
dir_cwd == <<"/", "w">>
dir_home == <<"/", "h">>

HomeSet == [set |-> TRUE, value |-> dir_home]
HomeUnset == [set |-> FALSE, value |-> <<>>]
HomeOther == [set |-> TRUE, value |-> <<"/", "o">>]

p_in_cwd == <<"/", "w", "/", "a">>
p_relative == <<"a", "/", "b">>
p_tilde == <<"~", "/", "s", "/", "k">>
p_etc == <<"/", "e", "/", "p">>
p_dotdot == <<"/", "w", "/", ".", ".", "/", "e", "/", "p", "/">>

pat_cwd_all == CwdToken \o <<"/", "*", "*">>
pat_ssh == <<"~", "/", "s", "/", "*", "*">>
pat_home_any == HomeToken \o <<"/", "*">>
pat_etc_star == <<"/", "e", "/", "*">>
pat_bad == CwdToken \o <<"/", "[">>

RawFileRule(pattern, operations) == [raw_pattern |-> pattern, operations |-> operations]

FilesSections ==
    { NoSection,
      Some(EmptyTiers),
      Some(Tiers(<<RawFileRule(pat_ssh, {"read", "write"})>>, <<>>,
                 <<RawFileRule(pat_cwd_all, {"read", "write", "glob", "grep"})>>)),
      Some(Tiers(<<>>, <<>>, <<RawFileRule(pat_ssh, {"read"})>>)),
      Some(Tiers(<<RawFileRule(pat_bad, {"read"})>>, <<>>, <<>>)),
      Some(Tiers(<<>>, <<>>, <<RawFileRule(pat_bad, {"read", "edit"})>>)),
      Some(Tiers(<<>>, <<RawFileRule(pat_etc_star, {"read", "edit"})>>,
                 <<RawFileRule(pat_home_any, {"read", "grep"})>>)),
      Some(Tiers(<<RawFileRule(pat_ssh, {"write"})>>, <<>>,
                 <<RawFileRule(pat_etc_star, {"read"})>>)) }

PathValues ==
    { JsonAbsent, JsonNumber, JsonString(<<>>) }
    \cup { JsonString(p) : p \in {p_in_cwd, p_relative, p_tilde, p_etc, p_dotdot} }

ToolInput(command, file_path, path) ==
    [command |-> command, file_path |-> file_path, path |-> path]

HookInput(tool_name, tool_input, mode) ==
    [tool_name |-> tool_name, tool_input |-> tool_input,
     permission_mode |-> mode, cwd |-> dir_cwd]

Source(bash, files) == [present |-> TRUE, bash |-> bash, files |-> files]
NoSource == [present |-> FALSE, bash |-> NoSection, files |-> NoSection]

NoTrace == Early(Pending, "pending")

(***************************************************************************)
(* The hook process: load the config, then evaluate the input              *)
(***************************************************************************)

\* Bash tool calls with direct commands and with commands that never reach lookup
InitBash ==
    /\ home = HomeSet
    /\ source \in { Source(b, NoSection) : b \in BashSections }
    /\ input \in { HookInput("Bash", ToolInput(c, JsonAbsent, JsonAbsent), m) :
                      c \in DegenerateCommandValues \cup ListCommandValues,
                      m \in PermissionMode }

\* Bash tool calls through a transparent wrapper
InitWrapper ==
    /\ home = HomeSet
    /\ source \in { Source(b, NoSection) : b \in WrapperBashSections }
    /\ input \in { HookInput("Bash", ToolInput(c, JsonAbsent, JsonAbsent), m) :
                      c \in WrapperCommandValues, m \in PermissionMode }

\* file tool calls
InitFiles ==
    /\ home \in {HomeSet, HomeUnset}
    /\ source \in { Source(NoSection, f) : f \in FilesSections }
    /\ input \in { HookInput(t, ToolInput(JsonAbsent, v, JsonAbsent), m) :
                      t \in {"Read", "Write", "Edit"}, v \in PathValues, m \in PermissionMode }
               \cup
                 { HookInput(t, ToolInput(JsonAbsent, JsonAbsent, v), m) :
                      t \in {"Glob", "Grep"}, v \in PathValues, m \in PermissionMode }

\* tools the hook does not know, and runs without any config
InitOther ==
    /\ home \in {HomeSet, HomeUnset}
    /\ source \in { NoSource,
                    Source(Some(Tiers(<<rule_rm>>, <<rule_docker>>, <<rule_git>>)),
                           Some(Tiers(<<RawFileRule(pat_ssh, {"read", "write"})>>, <<>>,
                                      <<RawFileRule(pat_cwd_all, {"read", "write"})>>))) }
    /\ input \in { HookInput(t, ToolInput(c, v, v), m) :
                      t \in {"Bash", "Read", "Write", "Edit", "Glob", "Grep",
                             "NotebookEdit", "mcp__x"},
                      c \in {JsonAbsent,
                             CommandString(<<Simple(w_rm, Words(<<a_rf, a_root>>))>>),
                             CommandString(<<Simple(w_git, Words(<<a_status>>))>>)},
                      v \in {JsonAbsent, JsonString(p_in_cwd), JsonString(p_tilde)},
                      m \in PermissionMode }

Init ==
    /\ pc = "start"
    /\ config = NoConfig
    /\ trace = NoTrace
    /\ result = Pending
    /\ (InitBash \/ InitWrapper \/ InitFiles \/ InitOther)

\* cli::hook::run: Config::load of the effective config path
Load ==
    /\ pc = "start"
    /\ config' = load_config(source, home)
    /\ pc' = "loaded"
    /\ UNCHANGED <<home, source, input, trace, result>>

\* decision::evaluate on the parsed stdin, the response being written to stdout
Evaluate ==
    /\ pc = "loaded"
    /\ LET out == evaluate(input, config, home)
       IN /\ trace' = out
          /\ result' = out.decision
    /\ pc' = "done"
    /\ UNCHANGED <<home, source, config, input>>

Next == Load \/ Evaluate

Spec == Init /\ [][Next]_vars

(***************************************************************************)
(* Aggregation and mode modifier on their own: the two steps of the final  *)
(* match of evaluate_bash / evaluate_file_tool, on any decision list       *)
(***************************************************************************)

\* faulty variant: an unlisted entity is never looked for
find_trigger_explicit_only(programs, per_program, target) ==
    IF \E i \in 1..Len(programs) : per_program[i] = target
    THEN programs[CHOOSE i \in 1..Len(programs) :
                     per_program[i] = target /\ \A j \in 1..(i - 1) : per_program[j] # target]
    ELSE programs[1]

\* find_trigger and find_file_trigger; zip stops at the shorter list
find_trigger(programs, per_program, target) ==
    IF \E i \in 1..Len(programs) : per_program[i] = target
    THEN programs[CHOOSE i \in 1..Len(programs) :
                     per_program[i] = target /\ \A j \in 1..(i - 1) : per_program[j] # target]
    ELSE IF target = Ask /\ \E i \in 1..Len(programs) : per_program[i] = None
    THEN programs[CHOOSE i \in 1..Len(programs) :
                     per_program[i] = None /\ \A j \in 1..(i - 1) : per_program[j] # None]
    ELSE programs[1]

\* the reason as [wording, trigger, listed]; listed: the names joined after it
Reason(wording, trigger, listed) == [wording |-> wording, trigger |-> trigger, listed |-> listed]

build_reason(modified, programs, per_program, pre_modifier) ==
    LET is_single == Len(programs) = 1
        trigger == find_trigger(programs, per_program, pre_modifier)
    IN CASE modified = Allow -> Reason("allowed", <<>>, programs)
         [] modified = Deny ->
              IF pre_modifier # Deny
              THEN Reason("denied by dontAsk mode", trigger, IF is_single THEN <<>> ELSE programs)
              ELSE IF is_single THEN Reason("is in your deny list", trigger, <<>>)
              ELSE Reason("is denied", trigger, programs)
         [] modified = Ask ->
              Reason("requires confirmation", trigger, IF is_single THEN <<>> ELSE programs)

build_file_reason(modified, paths, per_path, pre_modifier) ==
    LET trigger == find_trigger(paths, per_path, pre_modifier)
    IN CASE modified = Allow -> Reason("allowed", <<>>, paths)
         [] modified = Deny ->
              IF pre_modifier # Deny THEN Reason("denied by dontAsk mode", trigger, <<>>)
              ELSE Reason("denied by file rules", trigger, <<>>)
         [] modified = Ask -> Reason("requires confirmation", trigger, <<>>)

\* the entities the decisions of the list belong to, in command order
ProgramNames == <<w_rm, w_git, w_ls, w_docker, w_env>>
PathNames == <<p_in_cwd, p_etc, p_tilde, p_relative, p_dotdot>>

InitAgg ==
    /\ pc = "agg_start"
    /\ home = HomeSet
    /\ source = NoSource
    /\ config = NoConfig
    /\ input \in { HookInput("Bash", ToolInput(JsonAbsent, JsonAbsent, JsonAbsent), m) :
                      m \in PermissionMode }
    /\ trace \in { Outcome(Pending, "pending", <<>>, ds, None) :
                      ds \in SeqsUpTo(OptDecision, MaxDecisions) }
    /\ result = Pending

Aggregate ==
    /\ pc = "agg_start"
    /\ trace' = [trace EXCEPT !.aggregated = aggregate_decisions(trace.per_entity),
                              !.stage = "aggregated"]
    /\ pc' = "aggregated"
    /\ UNCHANGED <<home, source, config, input, result>>

ApplyMode ==
    /\ pc = "aggregated"
    /\ result' = IF trace.aggregated = None THEN None
                 ELSE apply_mode_modifier(trace.aggregated, input.permission_mode)
    /\ trace' = [trace EXCEPT !.decision = result', !.stage = "modified"]
    /\ pc' = "done"
    /\ UNCHANGED <<home, source, config, input>>

\* the reason evaluate_bash attaches to the decision
BuildReason ==
    /\ pc = "done"
    /\ result # None
    /\ source' = [entities |-> SubSeq(ProgramNames, 1, Len(trace.per_entity)),
                  reason |-> build_reason(result,
                                          SubSeq(ProgramNames, 1, Len(trace.per_entity)),
                                          trace.per_entity, trace.aggregated)]
    /\ pc' = "reasoned"
    /\ UNCHANGED <<home, config, input, trace, result>>

\* the reason evaluate_file_tool attaches to the decision
BuildFileReason ==
    /\ pc = "done"
    /\ result # None
    /\ source' = [entities |-> SubSeq(PathNames, 1, Len(trace.per_entity)),
                  reason |-> build_file_reason(result,
                                               SubSeq(PathNames, 1, Len(trace.per_entity)),
                                               trace.per_entity, trace.aggregated)]
    /\ pc' = "reasoned"
    /\ UNCHANGED <<home, config, input, trace, result>>

NextAgg == Aggregate \/ ApplyMode \/ BuildReason \/ BuildFileReason

SpecAgg == InitAgg /\ [][NextAgg]_vars

(***************************************************************************)
(* Tier lookup on its own.  A section is written as a sequence of rule     *)
(* nodes, each naming its tier; the loader appends every rule to its       *)
(* tier's list in the order written.                                       *)
(***************************************************************************)

TierNames == {"deny", "ask", "allow"}

\* push_rule / the per-tier collection of a section: rules of one tier, in order
RECURSIVE tier_of(_, _)
tier_of(written, name) ==
    IF written = <<>> THEN <<>>
    ELSE IF Head(written).tier = name
         THEN <<Head(written).rule>> \o tier_of(Tail(written), name)
         ELSE tier_of(Tail(written), name)

section_of(written) ==
    Some(Tiers(tier_of(written, "deny"), tier_of(written, "ask"), tier_of(written, "allow")))

WrittenSections(rules) ==
    InjSeqsUpTo({ [tier |-> t, rule |-> r] : t \in TierNames, r \in rules }, MaxWrittenRules)

LookupBashRules == {rule_rm, rule_rm_rf_root, rule_git, rule_git_push}

LookupSegments ==
    { [program |-> w_rm, args |-> <<a_r, a_f, a_root>>],
      [program |-> w_rm, args |-> <<a_x>>],
      [program |-> w_git, args |-> <<a_push>>],
      [program |-> w_git, args |-> <<a_status>>],
      [program |-> w_ls, args |-> <<>>] }

LookupFileRules ==
    { RawFileRule(pat_etc_star, {"read"}), RawFileRule(pat_ssh, {"read"}),
      RawFileRule(pat_bad, {"read"}), RawFileRule(pat_ssh, {"write"}) }

np_etc == <<"/", "e", "/", "p">>
np_ssh == <<"/", "h", "/", "s", "/", "k">>

InitLookupBash ==
    /\ home = HomeSet
    /\ \E written \in WrittenSections(LookupBashRules) :
          /\ source = [present |-> TRUE, bash |-> section_of(written),
                       files |-> NoSection, written |-> written]
          /\ config = load_config(Source(section_of(written), NoSection), home)
    /\ input \in { HookInput("Bash", ToolInput(JsonAbsent, JsonAbsent, JsonAbsent), m) :
                      m \in {"default"} }
    /\ trace \in { Outcome(Pending, "pending", <<seg>>, <<>>, None) : seg \in LookupSegments }

InitLookupFiles ==
    /\ home \in {HomeSet, HomeUnset}
    /\ \E written \in WrittenSections(LookupFileRules) :
          /\ source = [present |-> TRUE, bash |-> NoSection,
                       files |-> section_of(written), written |-> written]
          /\ config = load_config(Source(NoSection, section_of(written)), home)
    /\ input \in { HookInput(t, ToolInput(JsonAbsent, JsonAbsent, JsonAbsent), m) :
                      t \in {"Read", "Write"}, m \in {"default"} }
    /\ trace \in { Outcome(Pending, "pending", <<p>>, <<>>, None) : p \in {np_etc, np_ssh} }

InitLookup ==
    /\ pc = "lookup_start"
    /\ result = Pending
    /\ (InitLookupBash \/ InitLookupFiles)

LookupBash ==
    /\ pc = "lookup_start"
    /\ input.tool_name = "Bash"
    /\ result' = BashConfig_lookup(config.bash.value, trace.entities[1])
    /\ trace' = [trace EXCEPT !.per_entity = <<result'>>, !.stage = "looked_up"]
    /\ pc' = "done"
    /\ UNCHANGED <<home, source, config, input>>

LookupFile ==
    /\ pc = "lookup_start"
    /\ input.tool_name \in FileTools
    /\ result' = files_lookup(config.files.value, trace.entities[1],
                              file_operation(ToolUse_parse(input.tool_name, input.tool_input)),
                              input.cwd)
    /\ trace' = [trace EXCEPT !.per_entity = <<result'>>, !.stage = "looked_up"]
    /\ pc' = "done"
    /\ UNCHANGED <<home, source, config, input>>

NextLookup == LookupBash \/ LookupFile

SpecLookup == InitLookup /\ [][NextLookup]_vars

(***************************************************************************)
(* Properties                                                              *)
(***************************************************************************)

C2_AggregateSeverity ==
    LET ds == Range(trace.per_entity)
    IN (pc = "aggregated" /\ ds \cap Decision # {}) =>
          trace.aggregated = (IF Deny \in ds THEN Deny
                              ELSE IF Ask \in ds \/ None \in ds THEN Ask
                              ELSE Allow)

C2_Witness ==
    /\ pc = "aggregated"
    /\ Range(trace.per_entity) = {Allow, None}
    /\ trace.aggregated = Ask

\* C3: an aggregated Ask becomes Allow under bypassPermissions, Deny under
\* dontAsk and stays Ask under default, plan and acceptEdits; an aggregated
\* Allow or Deny is returned unchanged under all five modes.
C3_ModeModifier ==
    (pc = "done" /\ trace.stage = "modified" /\ trace.aggregated # None) =>
        /\ trace.aggregated \in {Allow, Deny} => result = trace.aggregated
        /\ trace.aggregated = Ask =>
              /\ input.permission_mode = "bypassPermissions" => result = Allow
              /\ input.permission_mode = "dontAsk" => result = Deny
              /\ input.permission_mode \in {"default", "plan", "acceptEdits"} => result = Ask

C3_Witness ==
    /\ pc = "done"
    /\ trace.stage = "modified"
    /\ trace.aggregated = Ask
    /\ input.permission_mode = "acceptEdits"
    /\ result = Ask

\* C6: with a config present, a Bash call whose command is missing, is not a
\* string, is empty or only whitespace, does not parse, or parses to zero
\* segments is answered Ask in every mode, whether or not the config has a
\* bash section.
DegenerateCommand(c) ==
    \/ c.type # "string"
    \/ TrimIsEmpty(c.text)
    \/ ~c.ast.ok
    \/ parse([text |-> c.text, ast |-> c.ast]).segs = <<>>

LookedUp == pc = "done" /\ trace.stage = "looked_up"

TierWalk(deny_hit, ask_hit, allow_hit) ==
    IF deny_hit THEN Deny
    ELSE IF ask_hit THEN Ask
    ELSE IF allow_hit THEN Allow
    ELSE None

WrittenNodes == Range(source.written)

BashHit(tier) ==
    \E w \in WrittenNodes : w.tier = tier /\ matches(w.rule, trace.entities[1])

RequestedOperation == file_operation(ToolUse_parse(input.tool_name, input.tool_input))

\* the pattern needs $HOME and $HOME is not set
ExpansionError(raw_pattern) ==
    /\ (StartsWith(raw_pattern, <<"~">>) \/ ContainsSub(raw_pattern, HomeToken))
    /\ ~home.set

ExpansionErrorFor(operation) ==
    \E w \in WrittenNodes :
        operation \in w.rule.operations /\ ExpansionError(w.rule.raw_pattern)

MatchTimePattern(raw_pattern) ==
    Replace(expand_home(raw_pattern, home).value, CwdToken, input.cwd)

\* a rule whose glob does not compile counts as matching in deny and ask only
CountsAsMatch(w, path) ==
    /\ RequestedOperation \in w.rule.operations
    /\ IF glob_compiles(MatchTimePattern(w.rule.raw_pattern))
       THEN glob_match_at(MatchTimePattern(w.rule.raw_pattern), 1, path, 1, FALSE)
       ELSE w.tier \in {"deny", "ask"}

FileHit(tier) ==
    \E w \in WrittenNodes : w.tier = tier /\ CountsAsMatch(w, trace.entities[1])

\* C4 (as stated): for a bash segment and for a file path alike the lookup is
\* Deny if any deny rule matches, else Ask if any ask rule matches, else
\* Allow if any allow rule matches, else None.
C4_TierWalkAlways ==
    LookedUp =>
        result = IF input.tool_name = "Bash"
                 THEN TierWalk(BashHit("deny"), BashHit("ask"), BashHit("allow"))
                 ELSE TierWalk(FileHit("deny"), FileHit("ask"), FileHit("allow"))

\* C4 (amended): the lookup of a bash segment, and the lookup of a file path
\* when no rule for the requested operation has a home-expansion error, is
\* Deny if any deny rule matches, else Ask if any ask rule matches, else Allow
\* if any allow rule matches, else None; with such an error the file lookup is
\* Ask.  The result is a function of the set of written rules, so it does not
\* depend on their order, and a deny or ask rule that does not match leaves
\* the decision to the lower tiers.
C4_TierWalk ==
    LookedUp =>
        result = IF input.tool_name = "Bash"
                 THEN TierWalk(BashHit("deny"), BashHit("ask"), BashHit("allow"))
                 ELSE IF ExpansionErrorFor(RequestedOperation) THEN Ask
                 ELSE TierWalk(FileHit("deny"), FileHit("ask"), FileHit("allow"))

C4_Witness ==
    /\ LookedUp
    /\ input.tool_name = "Bash"
    /\ source.written = << [tier |-> "allow", rule |-> rule_rm],
                           [tier |-> "ask", rule |-> rule_git],
                           [tier |-> "deny", rule |-> rule_rm_rf_root] >>
    /\ trace.entities[1] = [program |-> w_rm, args |-> <<a_x>>]
    /\ result = Allow

\* C8: when a file rule of any tier whose operations contain the requested
\* one has a home-expansion error, the file lookup is Ask for every path,
\* matching deny rules included; a rule with an expansion error for other
\* operations only changes nothing: the lookup equals the lookup of the
\* config without it.
WithoutForeignErrors ==
    SelectSeq(source.written,
              LAMBDA w : ~(ExpansionError(w.rule.raw_pattern)
                           /\ RequestedOperation \notin w.rule.operations))

C8_ExpansionErrorAsks ==
    (LookedUp /\ input.tool_name \in FileTools) =>
        /\ ExpansionErrorFor(RequestedOperation) => result = Ask
        /\ result = files_lookup(
                        load_config(Source(NoSection, section_of(WithoutForeignErrors)),
                                    home).files.value,
                        trace.entities[1], RequestedOperation, input.cwd)

C8_Witness ==
    /\ LookedUp
    /\ ~home.set
    /\ input.tool_name = "Read"
    /\ trace.entities[1] = np_etc
    /\ source.written = << [tier |-> "deny", rule |-> RawFileRule(pat_etc_star, {"read"})],
                           [tier |-> "allow", rule |-> RawFileRule(pat_ssh, {"read"})],
                           [tier |-> "deny", rule |-> RawFileRule(pat_ssh, {"write"})] >>
    /\ result = Ask

\* C9: without expansion error for the requested operation, a file rule for
\* that operation whose pattern, after <cwd> substitution, does not compile
\* as a glob decides like a rule matching every path when it is in the deny
\* or ask tier, and like no rule at all when it is in the allow tier.
BrokenGlob(w) ==
    /\ RequestedOperation \in w.rule.operations
    /\ ~glob_compiles(MatchTimePattern(w.rule.raw_pattern))

GoodHit(tier) ==
    \E w \in WrittenNodes : w.tier = tier /\ ~BrokenGlob(w) /\ CountsAsMatch(w, trace.entities[1])

BrokenIn(tier) == \E w \in WrittenNodes : w.tier = tier /\ BrokenGlob(w)

C9_BrokenGlobFailsClosed ==
    (/\ LookedUp
     /\ input.tool_name \in FileTools
     /\ ~ExpansionErrorFor(RequestedOperation)
     /\ \E w \in WrittenNodes : BrokenGlob(w)) =>
        result = TierWalk(GoodHit("deny") \/ BrokenIn("deny"),
                          GoodHit("ask") \/ BrokenIn("ask"),
                          GoodHit("allow"))

C9_Witness ==
    /\ LookedUp
    /\ home.set
    /\ input.tool_name = "Read"
    /\ trace.entities[1] = np_ssh
    /\ source.written = << [tier |-> "allow", rule |-> RawFileRule(pat_ssh, {"read"})],
                           [tier |-> "ask", rule |-> RawFileRule(pat_bad, {"read"})] >>
    /\ result = Ask

(***************************************************************************)
(* Wrapper invariance.  What belongs to the wrapper is told from what the  *)
(* wrapper programs themselves accept: env takes -u/--unset and -C/--chdir *)
(* with a value and NAME=VALUE words, exec takes -a with a value, short    *)
(* options may be written as one cluster whose last letter takes the       *)
(* value (env -iu NAME, exec -la NAME).  Split-string forms, which name    *)
(* the program inside their value, are not a case of the property.         *)
(***************************************************************************)

OwnValueOptions(wrapper_basename) ==
    CASE wrapper_basename = w_env -> {opt_u, opt_unset, opt_C, opt_chdir}
      [] wrapper_basename = w_exec -> {opt_a}
      [] OTHER -> {}

SplitStringForm(text) == StartsWith(text, opt_S) \/ StartsWith(text, opt_split_string)

TakesValue(wrapper_basename, text) ==
    \/ text \in OwnValueOptions(wrapper_basename)
    \/ /\ Len(text) > 2
       /\ text[1] = "-"
       /\ text[2] # "-"
       /\ <<"-", text[Len(text)]>> \in OwnValueOptions(wrapper_basename)

\* position of the wrapped program among the wrapper's words; 0 when there
\* is none or when a split-string form precedes it
RECURSIVE WrappedStart(_, _, _)
WrappedStart(items, i, wrapper_basename) ==
    IF i > Len(items) THEN 0
    ELSE IF items[i].kind # "Word" THEN WrappedStart(items, i + 1, wrapper_basename)
    ELSE IF SplitStringForm(items[i].text) THEN 0
    ELSE IF TakesValue(wrapper_basename, items[i].text)
         THEN WrappedStart(items, i + 2, wrapper_basename)
    ELSE IF StartsWith(items[i].text, <<"-">>)
         THEN WrappedStart(items, i + 1, wrapper_basename)
    ELSE IF wrapper_basename = w_env /\ Contains(items[i].text, "=")
         THEN WrappedStart(items, i + 1, wrapper_basename)
    ELSE i

\* the request is one simple command  W [W's options] X args  with X no wrapper
IsWrapperCall(c) ==
    /\ c.type = "string"
    /\ c.ast.ok
    /\ Len(c.ast.program) = 1
    /\ c.ast.program[1].type = "Simple"
    /\ file_name_or(c.ast.program[1].word) \in {w_env, w_command, w_nohup, w_exec, w_builtin}
    /\ LET items == c.ast.program[1].suffix
           k == WrappedStart(items, 1, file_name_or(c.ast.program[1].word))
       IN k > 0 /\ file_name_or(items[k].text) \notin TRANSPARENT_WRAPPERS

\* the command  X args  of a wrapper call
DirectCall(c) ==
    LET items == c.ast.program[1].suffix
        k == WrappedStart(items, 1, file_name_or(c.ast.program[1].word))
    IN CommandString(<< Simple(items[k].text, SubSeq(items, k + 1, Len(items))) >>)

\* C5: the decision for  W X args, with W one of env, command, nohup, exec,
\* builtin (with or without directory prefix) followed by any of its own
\* options and their values, is the decision for  X args  under the same
\* config and permission mode.
C5_WrapperInvariance ==
    (/\ pc = "done"
     /\ input.tool_name = "Bash"
     /\ IsWrapperCall(input.tool_input.command)) =>
        result = evaluate([input EXCEPT !.tool_input.command = DirectCall(@)],
                          config, home).decision

(***************************************************************************)
(* Properties of whole evaluations of file tool calls                      *)
(***************************************************************************)

RequestedPaths == file_paths(ToolUse_parse(input.tool_name, input.tool_input), input.cwd)

\* the rules of the files section, each with the tier it was written in
FileNodes ==
    UNION { { [tier |-> t, rule |-> r] : r \in Range(source.files.value[t]) } :
                t \in TierNames }

FileExpansionErrorFor(operation) ==
    \E w \in FileNodes :
        operation \in w.rule.operations /\ ExpansionError(w.rule.raw_pattern)

TildeWithoutHome(raw) == StartsWith(raw, <<"~">>) /\ ~home.set

\* C7 (as stated): when $HOME is unset and the raw path of a file tool call
\* begins with ~, or $HOME is unset and a file rule for the requested
\* operation needs home expansion, the final decision is neither allow nor
\* no opinion, in every permission mode.
C7_HomeErrorNeverAllows ==
    (/\ pc = "done"
     /\ config.present
     /\ config.files.some
     /\ input.tool_name \in FileTools
     /\ \/ FileExpansionErrorFor(RequestedOperation)
        \/ \E k \in 1..Len(RequestedPaths) : TildeWithoutHome(RequestedPaths[k]))
        => result \in {Ask, Deny}

NoBashRuleMatches(segment) ==
    \A t \in TierNames : \A r \in Range(config.bash.value[t]) : ~matches(r, segment)

NoFileRuleMatches(raw) ==
    /\ ~TildeWithoutHome(raw)
    /\ \A w \in FileNodes :
          ~CountsAsMatch(w, NormalizedPath_new(raw, input.cwd, home).value)

BashNoOpinionCase ==
    /\ input.tool_name = "Bash"
    /\ ~DegenerateCommand(input.tool_input.command)
    /\ \/ ~config.bash.some
       \/ LET c == input.tool_input.command
              segs == parse([text |-> c.text, ast |-> c.ast]).segs
          IN \A k \in 1..Len(segs) : NoBashRuleMatches(segs[k])

FilePathsMatchNothing ==
    /\ RequestedPaths # <<>>
    /\ \A k \in 1..Len(RequestedPaths) : NoFileRuleMatches(RequestedPaths[k])

C11_NoConfigAsks ==
    (pc = "done" /\ ~source.present) => result = Ask

C11_Witness ==
    /\ pc = "done"
    /\ ~source.present
    /\ input.tool_name = "mcp__x"
    /\ input.permission_mode = "bypassPermissions"
    /\ result = Ask

\* C19: the mode modifier touches only the aggregated rule decision.  The
\* fail-closed Asks (no config; a Bash command that is missing, blank,
\* unparseable or without segments; Read, Write or Edit without a usable
\* file_path when the config has a files section) are Ask in every mode,
\* bypassPermissions and dontAsk included.
UnusableFilePath(v) == v.type # "string" \/ v.text = <<>>

FailClosedCase ==
    \/ ~source.present
    \/ /\ input.tool_name = "Bash"
       /\ DegenerateCommand(input.tool_input.command)
    \/ /\ input.tool_name \in {"Read", "Write", "Edit"}
       /\ source.files.some
       /\ UnusableFilePath(input.tool_input.file_path)

C19_WitnessBash ==
    /\ pc = "done"
    /\ source.present
    /\ input.tool_name = "Bash"
    /\ input.tool_input.command = JsonNumber
    /\ input.permission_mode = "bypassPermissions"
    /\ result = Ask

\* a deny rule for the requested operation whose pattern expanded and
\* compiled, and matches the path
ValidDenyMatch ==
    \E w \in WrittenNodes :
        /\ w.tier = "deny"
        /\ RequestedOperation \in w.rule.operations
        /\ ~ExpansionError(w.rule.raw_pattern)
        /\ glob_compiles(MatchTimePattern(w.rule.raw_pattern))
        /\ glob_match_at(MatchTimePattern(w.rule.raw_pattern), 1, trace.entities[1], 1, FALSE)

\* C20 (as stated): when the normalized path matches a validly expanded
\* deny-tier file rule whose operations contain the requested one, the file
\* lookup is Deny whatever other rules the config contains.
C20_ValidDenyAlwaysDenies ==
    (LookedUp /\ input.tool_name \in FileTools /\ ValidDenyMatch) => result = Deny

\* C20 (amended): when the normalized path matches a validly expanded
\* deny-tier file rule whose operations contain the requested one, the file
\* lookup is Deny whatever other rules the config contains, except that a
\* rule (of any tier) for the requested operation whose pattern could not be
\* home-expanded makes the lookup Ask instead.
C20_ValidDenyDenies ==
    (LookedUp /\ input.tool_name \in FileTools /\ ValidDenyMatch) =>
        result = IF ExpansionErrorFor(RequestedOperation) THEN Ask ELSE Deny

C20_Witness ==
    /\ LookedUp
    /\ input.tool_name = "Read"
    /\ home.set
    /\ source.written = << [tier |-> "allow", rule |-> RawFileRule(pat_etc_star, {"read"})],
                           [tier |-> "ask", rule |-> RawFileRule(pat_ssh, {"read"})],
                           [tier |-> "deny", rule |-> RawFileRule(pat_etc_star, {"read"})] >>
    /\ trace.entities[1] = np_etc
    /\ result = Deny

\* the case the statement misses: an allow rule that needs $HOME, $HOME unset
C20_WitnessAsk ==
    /\ LookedUp
    /\ input.tool_name = "Read"
    /\ ~home.set
    /\ source.written = << [tier |-> "deny", rule |-> RawFileRule(pat_etc_star, {"read"})],
                           [tier |-> "allow", rule |-> RawFileRule(pat_ssh, {"read"})] >>
    /\ trace.entities[1] = np_etc
    /\ result = Ask

\* values of $HOME the process may find when the request is evaluated
RequestHomes == {HomeSet, HomeUnset, HomeOther}

SameDecisionUnderEveryHome ==
    \A h \in RequestHomes : evaluate(input, config, h).decision = result

TildeRequested ==
    /\ input.tool_name \in FileTools
    /\ \E k \in 1..Len(RequestedPaths) : StartsWith(RequestedPaths[k], <<"~">>)

C17_WitnessTilde ==
    /\ pc = "done"
    /\ home = HomeSet
    /\ input.tool_name = "Read"
    /\ input.tool_input.file_path = JsonString(p_tilde)
    /\ result = Deny
    /\ evaluate(input, config, HomeOther).decision # Deny
    /\ evaluate(input, config, HomeUnset).decision = Ask

(***************************************************************************)
(* Path normalization and pattern matching on their own                    *)
(*   input == [raw, cwd]; trace == [via, first, second, pattern]: the      *)
(*   normalizer applied, its result, the result of applying it again, and  *)
(*   the pattern matched; result is the Result<bool> of the match          *)
(***************************************************************************)

MaxPathLen == 4      \* characters of a raw path

\* crate::path::home_dir: the value of $HOME, a panic when it is not set
Panic == [panicked |-> TRUE, value |-> <<>>]
Returned(v) == [panicked |-> FALSE, value |-> v]

home_dir(env_home) ==
    IF env_home.set THEN Returned(env_home.value) ELSE Panic

\* faulty variant: the components are rejoined without the leading slash
normalize_without_leading_slash(path, cwd, env_home) ==
    IF StartsWith(path, <<"~">>) /\ home_dir(env_home).panicked THEN Panic
    ELSE
    LET path1 == IF StartsWith(path, <<"~">>)
                 THEN home_dir(env_home).value \o StripPrefix(path, <<"~">>)
                 ELSE path
        path2 == IF StartsWith(path1, <<"/">>) THEN path1 ELSE cwd \o <<"/">> \o path1
        components == collapse_components(SplitOn(path2, "/"), <<>>)
    IN Returned(IF components = <<>> THEN <<"/">>
                ELSE JoinWith(components, <<"/">>))

\* crate::path::normalize(path, cwd)
normalize(path, cwd, env_home) ==
    IF StartsWith(path, <<"~">>) /\ home_dir(env_home).panicked THEN Panic
    ELSE
    LET path1 == IF StartsWith(path, <<"~">>)
                 THEN home_dir(env_home).value \o StripPrefix(path, <<"~">>)
                 ELSE path
        path2 == IF StartsWith(path1, <<"/">>) THEN path1 ELSE cwd \o <<"/">> \o path1
        components == collapse_components(SplitOn(path2, "/"), <<>>)
    IN Returned(IF components = <<>> THEN <<"/">>
                ELSE <<"/">> \o JoinWith(components, <<"/">>))

PathChars == {"/", ".", "a", "~"}
RawPaths == SeqsUpTo(PathChars, MaxPathLen)
dir_a == <<"/", "a">>
PathCwds == {dir_cwd, dir_a}
PathPatterns ==
    { dir \o tail : dir \in {<<>>, dir_a}, tail \in {<<"/", "*">>, <<"/", "*", "*">>} }

PathTrace(via, first, second, pattern) ==
    [via |-> via, first |-> first, second |-> second, pattern |-> pattern]

InitPath ==
    /\ pc = "path_start"
    /\ home \in {HomeSet, HomeUnset}
    /\ source = NoSource
    /\ config = NoConfig
    /\ input \in { [raw |-> r, cwd |-> c] : r \in RawPaths, c \in PathCwds }
    /\ trace = PathTrace("none", <<>>, <<>>, <<>>)
    /\ result = Pending

\* crate::path::normalize on the raw path of a request
NormalizePath ==
    /\ pc = "path_start"
    /\ LET n == normalize(input.raw, input.cwd, home)
       IN IF n.panicked
          THEN /\ pc' = "panicked"
               /\ trace' = [trace EXCEPT !.via = "normalize"]
          ELSE /\ pc' = "normalized"
               /\ trace' = [trace EXCEPT !.via = "normalize", !.first = n.value]
    /\ UNCHANGED <<home, source, config, input, result>>

\* NormalizedPath::new on the raw path of a request
NormalizedPathNew ==
    /\ pc = "path_start"
    /\ LET n == NormalizedPath_new(input.raw, input.cwd, home)
       IN IF ~n.ok
          THEN /\ pc' = "home_not_set"
               /\ trace' = [trace EXCEPT !.via = "NormalizedPath::new"]
          ELSE /\ pc' = "normalized"
               /\ trace' = [trace EXCEPT !.via = "NormalizedPath::new", !.first = n.value]
    /\ UNCHANGED <<home, source, config, input, result>>

\* the same function once more, on its own result
Renormalize ==
    /\ pc = "normalized"
    /\ trace' = [trace EXCEPT !.second =
                    IF trace.via = "normalize"
                    THEN normalize(trace.first, input.cwd, home).value
                    ELSE NormalizedPath_new(trace.first, input.cwd, home).value]
    /\ pc' = "renormalized"
    /\ UNCHANGED <<home, source, config, input, result>>

\* crate::path::matches of the normalized path against an expanded pattern
MatchPath ==
    /\ pc = "renormalized"
    /\ \E pattern \in PathPatterns :
          /\ result' = path_matches(trace.first, pattern)
          /\ trace' = [trace EXCEPT !.pattern = pattern]
    /\ pc' = "done"
    /\ UNCHANGED <<home, source, config, input>>

NextPath == NormalizePath \/ NormalizedPathNew \/ Renormalize \/ MatchPath

SpecPath == InitPath /\ [][NextPath]_vars

\* C18: normalization is idempotent: normalizing the result of a successful
\* normalize(p, cwd) once more, with the same cwd, gives that result again.
C18_NormalizeIdempotent ==
    pc = "renormalized" => trace.second = trace.first

C18_Witness ==
    /\ pc = "renormalized"
    /\ trace.via = "normalize"
    /\ input.raw = <<"a", "/", ".", ".">>
    /\ input.cwd = dir_a
    /\ trace.first = dir_a
    /\ trace.second = dir_a

C18_WitnessTilde ==
    /\ pc = "renormalized"
    /\ trace.via = "NormalizedPath::new"
    /\ input.raw = <<"~", "/", "a", "/">>
    /\ trace.first = <<"/", "h", "/", "a">>
    /\ trace.second = trace.first

\* the part of path after prefix, when path starts with prefix
AfterPrefix(path, prefix) == SubSeq(path, Len(prefix) + 1, Len(path))

\* dir/* read component-wise: exactly the entries directly inside dir
StarWithinComponent(path, dir) ==
    /\ StartsWith(path, dir \o <<"/">>)
    /\ "/" \notin Range(AfterPrefix(path, dir \o <<"/">>))

\* dir/**: everything below dir, at any depth
DoubleStarSpans(path, dir) == StartsWith(path, dir \o <<"/">>)

\* C13: in a file pattern * matches only inside one path component and **
\* may span components: /a/* applies to /a/b but not to /a/b/c.
C13_StarWithinComponent ==
    (pc = "done" /\ trace.via # "none" /\ result.ok) =>
        \A dir \in {<<>>, dir_a} :
            /\ trace.pattern = dir \o <<"/", "*">> =>
                  result.value = StarWithinComponent(trace.first, dir)
            /\ trace.pattern = dir \o <<"/", "*", "*">> =>
                  result.value = DoubleStarSpans(trace.first, dir)

\* what the code does instead: * spans components like ** does
C13_StarSpansComponents ==
    (pc = "done" /\ trace.via # "none" /\ result.ok) =>
        \A dir \in {<<>>, dir_a} :
            trace.pattern \in {dir \o <<"/", "*">>, dir \o <<"/", "*", "*">>} =>
                result.value = DoubleStarSpans(trace.first, dir)

\* /a/* applied to /a/a/a
C13_FailingInput ==
    /\ pc = "done"
    /\ trace.pattern = <<"/", "a", "/", "*">>
    /\ trace.first = <<"/", "a", "/", "a", "/", "a">>
    /\ result = [ok |-> TRUE, value |-> TRUE]

\* C16: no runtime input makes the engine panic; in particular $HOME being
\* unset while a path needs it is reported as an error value, never a panic.
C16_NoPanic ==
    pc # "panicked"

\* ~/a normalized by crate::path::normalize while $HOME is not set
C16_FailingInput ==
    /\ pc = "panicked"
    /\ ~home.set
    /\ trace.via = "normalize"
    /\ input.raw = <<"~", "/", "a">>

\* the fallible constructor reports the same input as HomeNotSet
C16_HomeNotSetReported ==
    /\ pc = "home_not_set"
    /\ ~home.set
    /\ trace.via = "NormalizedPath::new"
    /\ input.raw = <<"~", "/", "a">>

(***************************************************************************)
(* Rule matching on its own: a rule as the loader builds it from its       *)
(* written program and conditions, a segment as the walker builds it from  *)
(* the command word and the expanded arguments                             *)
(*   input == [rule_program, conditions, word, args]; config is the rule,  *)
(*   trace the segment, result whether the rule matches                    *)
(***************************************************************************)

MaxArgs == 3         \* arguments of a segment

a_dash == <<"-">>
a_to == <<"-", "-", "t">>
a_to_eq_x == <<"-", "-", "t", "=", "x">>
pat_p_star == <<"p", "*">>
pat_any == <<"*">>

ArgumentPattern(flag, value) == [flag |-> flag, value |-> value]

Conditions(required, optional, subcommand, positionals, arguments, subcommands) ==
    [required_flags |-> required, optional_flags |-> optional,
     subcommand |-> subcommand, positionals |-> positionals,
     required_arguments |-> arguments, subcommands |-> subcommands]

NoConditions == Conditions({}, {}, <<>>, <<>>, <<>>, <<>>)

MatchConditions ==
    { NoConditions,
      Conditions({a_r, a_f}, {}, <<>>, <<>>, <<>>, <<>>),
      Conditions({}, {a_r, a_f}, <<>>, <<>>, <<>>, <<>>),
      Conditions({}, {}, <<a_push>>, <<>>, <<>>, <<>>),
      Conditions({}, {}, <<a_push, a_x>>, <<>>, <<>>, <<>>),
      Conditions({}, {}, <<>>, <<pat_p_star>>, <<>>, <<>>),
      Conditions({}, {}, <<>>, <<pat_p_star, a_x>>, <<>>, <<>>),
      Conditions({}, {}, <<>>, <<>>, <<ArgumentPattern(a_to, a_x)>>, <<>>),
      Conditions({}, {}, <<>>, <<>>, <<ArgumentPattern(a_to, pat_any)>>, <<>>),
      Conditions({}, {}, <<>>, <<>>, <<>>, << <<a_push>>, <<a_x, a_push>> >>),
      Conditions({a_r}, {}, <<a_push>>, <<>>, <<>>, <<>>),
      Conditions({}, {a_f}, <<>>, <<>>, <<ArgumentPattern(a_to, a_x)>>, << <<a_x>> >>) }

\* the program as written in the rule, the command word as written in the command
MatchPrograms ==
    { <<w_rm, w_rm>>, <<w_rm, w_bin_rm>>, <<w_bin_rm, w_rm>>, <<w_rm, w_git>> }

MatchArgTokens == {a_r, a_f, a_dashdash, a_dash, a_push, a_x, a_to, a_to_eq_x}

NoRule == [BashRule(<<>>) EXCEPT !.program = <<>>]
NoSegment == [program |-> <<>>, args |-> <<>>]

InitMatch ==
    /\ pc = "match_start"
    /\ home = HomeSet
    /\ source = NoSource
    /\ config = NoRule
    /\ input \in { [rule_program |-> pw[1], conditions |-> c, word |-> pw[2], args |-> args] :
                      pw \in MatchPrograms, c \in MatchConditions,
                      args \in SeqsUpTo(MatchArgTokens, MaxArgs) }
    /\ trace = NoSegment
    /\ result = Pending

\* the loader's BashRule and the walker's CommandSegment, each with its
\* program name reduced by ProgramName::new
BuildRuleAndSegment ==
    /\ pc = "match_start"
    /\ config' = [program |-> ProgramName_new(input.rule_program),
                  required_flags |-> input.conditions.required_flags,
                  optional_flags |-> input.conditions.optional_flags,
                  subcommand |-> input.conditions.subcommand,
                  positionals |-> input.conditions.positionals,
                  required_arguments |-> input.conditions.required_arguments,
                  subcommands |-> input.conditions.subcommands]
    /\ trace' = [program |-> ProgramName_new(input.word), args |-> input.args]
    /\ pc' = "built"
    /\ UNCHANGED <<home, source, input, result>>

\* BashRule::matches
MatchRule ==
    /\ pc = "built"
    /\ result' = matches(config, trace)
    /\ pc' = "done"
    /\ UNCHANGED <<home, source, config, input, trace>>

\* classify_args on the segment's args alone
ClassifyArgs ==
    /\ pc = "built"
    /\ source' = classify_args(trace.args)
    /\ pc' = "classified"
    /\ UNCHANGED <<home, config, input, trace, result>>

\* find_argument_value for each required argument of the rule
FindArgumentValues ==
    /\ pc = "built"
    /\ config.required_arguments # <<>>
    /\ source' = [found |-> [k \in 1..Len(config.required_arguments) |->
                                find_argument_value(trace.args, config.required_arguments[k])]]
    /\ pc' = "searched"
    /\ UNCHANGED <<home, config, input, trace, result>>

NextMatch == BuildRuleAndSegment \/ MatchRule \/ ClassifyArgs \/ FindArgumentValues

SpecMatch == InitMatch /\ [][NextMatch]_vars

\* the name after the last slash
Basename(name) ==
    LET slashes == { i \in 1..Len(name) : name[i] = "/" }
    IN IF slashes = {} THEN name
       ELSE SubSeq(name, (CHOOSE i \in slashes : \A j \in slashes : j <= i) + 1, Len(name))

\* where the options of an argument list end: at the first --, else after the last argument
OptionsEnd(args) ==
    IF \E i \in 1..Len(args) : args[i] = a_dashdash
    THEN CHOOSE i \in 1..Len(args) :
            args[i] = a_dashdash /\ \A j \in 1..(i - 1) : args[j] # a_dashdash
    ELSE Len(args) + 1

IsDashed(arg) == StartsWith(arg, <<"-">>) /\ arg # <<"-">>

\* the segment's flags: the dashed arguments before the end of options
SegmentFlags(args) ==
    { args[i] : i \in { k \in 1..(OptionsEnd(args) - 1) : IsDashed(args[k]) } }

\* the segment's positionals: the undashed arguments before the end of
\* options, then everything after it
SegmentPositionals(args) ==
    SelectSeq(SubSeq(args, 1, OptionsEnd(args) - 1), LAMBDA a : ~IsDashed(a))
        \o SubSeq(args, OptionsEnd(args) + 1, Len(args))

ChainIsPrefix(chain, positionals) ==
    /\ Len(chain) <= Len(positionals)
    /\ SubSeq(positionals, 1, Len(chain)) = chain

\* a required argument is present: before the end of options, either the flag
\* followed by an undashed value that matches, or flag=value with a matching value
ArgumentPresent(args, req) ==
    \E i \in 1..(OptionsEnd(args) - 1) :
        \/ /\ args[i] = req.flag
           /\ i + 1 <= Len(args)
           /\ ~IsDashed(args[i + 1])
           /\ pattern_is_match(req.value, args[i + 1])
        \/ /\ StartsWith(args[i], req.flag \o <<"=">>)
           /\ pattern_is_match(req.value, AfterPrefix(args[i], req.flag \o <<"=">>))

ProgramNamesEqual == Basename(input.rule_program) = Basename(input.word)

ConditionsHold ==
    LET c == input.conditions
        flags == SegmentFlags(input.args)
        positionals == SegmentPositionals(input.args)
    IN /\ c.required_flags \subseteq flags
       /\ c.optional_flags # {} => c.optional_flags \cap flags # {}
       /\ ChainIsPrefix(c.subcommand, positionals)
       /\ \A k \in 1..Len(c.positionals) :
             \E a \in 1..Len(positionals) : pattern_is_match(c.positionals[k], positionals[a])
       /\ \A k \in 1..Len(c.required_arguments) :
             ArgumentPresent(input.args, c.required_arguments[k])
       /\ c.subcommands # <<>> =>
             \E k \in 1..Len(c.subcommands) : ChainIsPrefix(c.subcommands[k], positionals)

\* C12: a bash rule matches a segment exactly when the program names are
\* equal after basename normalization of both sides, every required flag is
\* among the segment's flags, at least one optional flag is (when any is
\* listed), the inline subcommand chain is an ordered prefix of the segment's
\* positionals, every positional pattern matches some positional, every
\* required argument is present and at least one subcommands chain is an
\* ordered prefix (when any is listed).  A rule with empty conditions matches
\* exactly when the program names are equal.
C12_RuleMatchesExactlyWhen ==
    pc = "done" =>
        /\ result = (ProgramNamesEqual /\ ConditionsHold)
        /\ input.conditions = NoConditions => result = ProgramNamesEqual

C12_Witness ==
    /\ pc = "done"
    /\ input.rule_program = w_rm
    /\ input.word = w_bin_rm
    /\ input.conditions =
          Conditions({}, {a_f}, <<>>, <<>>, <<ArgumentPattern(a_to, a_x)>>, << <<a_x>> >>)
    /\ input.args = <<a_x, a_f, a_to_eq_x>>
    /\ result = TRUE

\* a flag written after -- is a positional, and does not satisfy the rule
C12_WitnessEndOfOptions ==
    /\ pc = "done"
    /\ input.rule_program = w_rm
    /\ input.word = w_rm
    /\ input.conditions = Conditions({a_r, a_f}, {}, <<>>, <<>>, <<>>, <<>>)
    /\ input.args = <<a_r, a_dashdash, a_f>>
    /\ result = FALSE

(***************************************************************************)
(* The hook subcommand as a process: the config file it finds, the bytes   *)
(* on stdin, and what it leaves on stdout and stderr                       *)
(*   source == [flag, env, xdg, content]: the state of the file named by   *)
(*             --config, by $CLAUDE_PERMISSIONS_HOOK_CONFIG and of the     *)
(*             per-user config.kdl, and the rules of a file that loads     *)
(*   input  == [kind, present, fields]: stdin                              *)
(*   trace  == [stdout, stderr, exit_code]                                 *)
(***************************************************************************)

FileStates == {"not_found", "unreadable", "kdl_error", "rule_error", "ok"}

\* Config::load: read_to_string, the KDL parser, then the section parsers
Config_load(file_state, content, env_home) ==
    CASE file_state = "not_found" -> [ok |-> FALSE, error |-> "NotFound", config |-> NoConfig]
      [] file_state = "unreadable" -> [ok |-> FALSE, error |-> "ReadError", config |-> NoConfig]
      [] file_state \in {"kdl_error", "rule_error"} ->
            [ok |-> FALSE, error |-> "ParseError", config |-> NoConfig]
      [] OTHER -> [ok |-> TRUE, error |-> "", config |-> load_config(content, env_home)]

\* discover_config: the environment variable, then the per-user file, each
\* only if the file exists
discover_config(src, env_home) ==
    IF src.env \notin {"unset", "not_found"} THEN "env"
    ELSE IF env_home.set /\ src.xdg # "not_found" THEN "xdg"
    ELSE "none"

effective_path(src, env_home) ==
    IF src.flag # "absent" THEN "flag" ELSE discover_config(src, env_home)

file_at(src, path) ==
    CASE path = "flag" -> src.flag
      [] path = "env" -> src.env
      [] OTHER -> src.xdg

RequiredFields ==
    {"session_id", "transcript_path", "cwd", "permission_mode", "hook_event_name",
     "tool_name", "tool_input", "tool_use_id"}

\* faulty variant: a permission_mode the hook does not know is read as default
from_str_unknown_mode_as_default(stdin) ==
    IF stdin.kind # "object" THEN [ok |-> FALSE, value |-> stdin.fields]
    ELSE IF ~(RequiredFields \subseteq stdin.present) THEN [ok |-> FALSE, value |-> stdin.fields]
    ELSE IF stdin.fields.permission_mode \notin PermissionMode
         THEN [ok |-> TRUE, value |-> [stdin.fields EXCEPT !.permission_mode = "default"]]
    ELSE [ok |-> TRUE, value |-> stdin.fields]

\* serde_json::from_str::<HookInput>
from_str(stdin) ==
    IF stdin.kind # "object" THEN [ok |-> FALSE, value |-> stdin.fields]
    ELSE IF ~(RequiredFields \subseteq stdin.present) THEN [ok |-> FALSE, value |-> stdin.fields]
    ELSE IF stdin.fields.permission_mode \notin PermissionMode
         THEN [ok |-> FALSE, value |-> stdin.fields]
    ELSE [ok |-> TRUE, value |-> stdin.fields]

\* execute_from_stdin: Err, or Ok with the decision (None: no opinion)
execute_from_stdin(stdin, cfg, env_home) ==
    IF stdin.kind = "unreadable" THEN [ok |-> FALSE, decision |-> None]
    ELSE LET hook_input == from_str(stdin)
         IN IF ~hook_input.ok THEN [ok |-> FALSE, decision |-> None]
            ELSE [ok |-> TRUE, decision |-> evaluate(hook_input.value, cfg, env_home).decision]

\* the serialized Decision
Decision_serialize(d) ==
    CASE d = Allow -> "allow"
      [] d = Ask -> "ask"
      [] OTHER -> "deny"

\* output_json of a HookOutput: one line on stdout
output_json(decision, reason_prefix) ==
    [hookEventName |-> "PreToolUse", permissionDecision |-> Decision_serialize(decision),
     reason_prefix |-> reason_prefix]

\* println!("{{}}")
EmptyObject == [hookEventName |-> "", permissionDecision |-> "", reason_prefix |-> ""]

\* faulty variant: nothing is printed when the engine has no opinion
respond_silent_without_opinion(executed) ==
    IF ~executed.ok THEN <<output_json(Ask, "Error: ")>>
    ELSE IF executed.decision = None THEN <<>>
    ELSE <<output_json(executed.decision, "")>>

\* the final match of run on the result of execute_from_stdin
respond(executed) ==
    IF ~executed.ok THEN <<output_json(Ask, "Error: ")>>
    ELSE IF executed.decision = None THEN <<EmptyObject>>
    ELSE <<output_json(executed.decision, "")>>

HookConfigContent ==
    Source(Some(Tiers(<<rule_rm>>, <<rule_docker>>, <<rule_git>>)),
           Some(Tiers(<<RawFileRule(pat_ssh, {"read", "write"})>>, <<>>,
                      <<RawFileRule(pat_cwd_all, {"read", "write"})>>)))

HookConfigFiles ==
    { [flag |-> f, env |-> e, xdg |-> x, content |-> HookConfigContent] :
        f \in {"absent"} \cup FileStates,
        e \in {"unset", "not_found", "kdl_error", "ok"},
        x \in {"not_found", "rule_error", "ok"} }

HookToolInputs ==
    { <<"Bash", ToolInput(CommandString(<<Simple(w_rm, Words(<<a_rf, a_root>>))>>),
                          JsonAbsent, JsonAbsent)>>,
      <<"Bash", ToolInput(CommandString(<<Simple(w_git, Words(<<a_status>>))>>),
                          JsonAbsent, JsonAbsent)>>,
      <<"Bash", ToolInput(CommandString(<<Simple(w_ls, <<>>)>>), JsonAbsent, JsonAbsent)>>,
      <<"Bash", ToolInput(JsonAbsent, JsonAbsent, JsonAbsent)>>,
      <<"Read", ToolInput(JsonAbsent, JsonString(p_in_cwd), JsonAbsent)>>,
      <<"Read", ToolInput(JsonAbsent, JsonString(p_tilde), JsonAbsent)>>,
      <<"Write", ToolInput(JsonAbsent, JsonString(p_etc), JsonAbsent)>>,
      <<"mcp__x", ToolInput(JsonAbsent, JsonAbsent, JsonAbsent)>> }

Stdin(kind, present, fields) == [kind |-> kind, present |-> present, fields |-> fields]

HookStdins ==
    LET some_input == HookInput("Bash", ToolInput(JsonAbsent, JsonAbsent, JsonAbsent), "default")
        rm_under(mode) ==
            HookInput("Bash",
                      ToolInput(CommandString(<<Simple(w_rm, Words(<<a_rf, a_root>>))>>),
                                JsonAbsent, JsonAbsent), mode)
    IN { Stdin(k, {}, some_input) : k \in {"unreadable", "empty", "not_json"} }
       \cup { Stdin("object", RequiredFields, HookInput(t[1], t[2], m)) :
                 t \in HookToolInputs, m \in PermissionMode }
       \cup { Stdin("object", RequiredFields \ {f}, rm_under(m)) :
                 f \in {"tool_name", "tool_input", "permission_mode"},
                 m \in {"default", "bypassPermissions"} }
       \cup { Stdin("object", RequiredFields, rm_under("auto")) }

InitHook ==
    /\ pc = "hook_start"
    /\ home \in {HomeSet, HomeUnset}
    /\ source \in HookConfigFiles
    /\ config = NoConfig
    /\ input \in HookStdins
    /\ trace = [stdout |-> <<>>, stderr |-> <<>>, exit_code |-> -1]
    /\ result = Pending

\* run, up to the match on the loaded config: a load error is answered at once
RunLoadConfig ==
    /\ pc = "hook_start"
    /\ LET path == effective_path(source, home)
           loaded == Config_load(file_at(source, path), source.content, home)
       IN IF path = "none"
          THEN /\ config' = NoConfig
               /\ pc' = "config_ready"
               /\ UNCHANGED <<trace, result>>
          ELSE IF loaded.ok
          THEN /\ config' = loaded.config
               /\ pc' = "config_ready"
               /\ UNCHANGED <<trace, result>>
          ELSE /\ trace' = [trace EXCEPT
                               !.stdout = Append(@, output_json(Ask, "Config error: ")),
                               !.exit_code = 0]
               /\ result' = Ask
               /\ pc' = "exited"
               /\ UNCHANGED config
    /\ UNCHANGED <<home, source, input>>

\* run, from execute_from_stdin to the return of main
RunExecute ==
    /\ pc = "config_ready"
    /\ LET executed == execute_from_stdin(input, config, home)
       IN /\ trace' = [trace EXCEPT !.stdout = @ \o respond(executed), !.exit_code = 0]
          /\ result' = IF executed.ok THEN executed.decision ELSE Ask
    /\ pc' = "exited"
    /\ UNCHANGED <<home, source, config, input>>

NextHook == RunLoadConfig \/ RunExecute

SpecHook == InitHook /\ [][NextHook]_vars

\* the state of the config file the hook loads, "no_file" when it finds none
ConfigFileRead ==
    IF source.flag # "absent" THEN source.flag
    ELSE IF source.env \notin {"unset", "not_found"} THEN source.env
    ELSE IF home.set /\ source.xdg # "not_found" THEN source.xdg
    ELSE "no_file"

LoadErrorCase == ConfigFileRead \in {"not_found", "unreadable", "kdl_error", "rule_error"}

InputErrorCase ==
    \/ input.kind \in {"unreadable", "empty", "not_json"}
    \/ ~(RequiredFields \subseteq input.present)
    \/ input.fields.permission_mode \notin PermissionMode

AskWithPrefix(prefix) ==
    [hookEventName |-> "PreToolUse", permissionDecision |-> "ask", reason_prefix |-> prefix]

C14_WitnessConfigError ==
    /\ pc = "exited"
    /\ source.flag = "absent"
    /\ source.env = "kdl_error"
    /\ input.kind = "object"
    /\ input.present = RequiredFields
    /\ input.fields.permission_mode = "bypassPermissions"
    /\ trace.stdout = <<AskWithPrefix("Config error: ")>>

C15_WitnessDeny ==
    /\ pc = "exited"
    /\ result = Deny
    /\ trace.stdout = <<output_json(Deny, "")>>

\* C25: in the classification of a segment's args a token that starts with
\* - , is not exactly - and stands before the first -- is a flag; the token -
\* and every token after the first -- are positionals, kept in order; the
\* first -- itself is in neither set.
C25_Classification ==
    pc = "classified" =>
        LET args == trace.args
            stop == OptionsEnd(args)
            before == SubSeq(args, 1, stop - 1)
            after == SubSeq(args, stop + 1, Len(args))
        IN /\ source.flags = { before[i] : i \in { k \in 1..Len(before) : IsDashed(before[k]) } }
           /\ source.positionals = SelectSeq(before, LAMBDA a : ~IsDashed(a)) \o after
           /\ stop <= Len(args) =>
                 Len(source.positionals) + Cardinality({ k \in 1..Len(before) : IsDashed(before[k]) })
                     = Len(args) - 1

C25_Witness ==
    /\ pc = "classified"
    /\ trace.args = <<a_dash, a_dashdash, a_r>>
    /\ source.flags = {}
    /\ source.positionals = <<a_dash, a_r>>

\* C26: a required argument (flag, value pattern) is satisfied exactly when,
\* before the first -- of the args, either the flag token is immediately
\* followed by a token that is not a flag (not starting with -, or exactly -)
\* and matches the pattern, or a token flag=value occurs whose value matches;
\* no token at or after -- can satisfy it.
C26_RequiredArgument ==
    pc = "searched" =>
        \A k \in 1..Len(config.required_arguments) :
            LET req == config.required_arguments[k]
                args == trace.args
                stop == OptionsEnd(args)
                separate(i) == /\ args[i] = req.flag
                               /\ i + 1 <= Len(args)
                               /\ (~StartsWith(args[i + 1], <<"-">>) \/ args[i + 1] = <<"-">>)
                               /\ pattern_is_match(req.value, args[i + 1])
                equals(i) == /\ Len(args[i]) > Len(req.flag)
                             /\ SubSeq(args[i], 1, Len(req.flag) + 1) = req.flag \o <<"=">>
                             /\ pattern_is_match(req.value,
                                    SubSeq(args[i], Len(req.flag) + 2, Len(args[i])))
            IN source.found[k] = \E i \in 1..(stop - 1) : separate(i) \/ equals(i)

C26_Witness ==
    /\ pc = "searched"
    /\ config.required_arguments = <<ArgumentPattern(a_to, a_x)>>
    /\ trace.args = <<a_dashdash, a_to, a_x>>
    /\ source.found = <<FALSE>>

C26_WitnessDashValue ==
    /\ pc = "searched"
    /\ config.required_arguments = <<ArgumentPattern(a_to, pat_any)>>
    /\ trace.args = <<a_to, a_dash>>
    /\ source.found = <<TRUE>>

(***************************************************************************)
(* The command walker on its own: parse applied to a command string.       *)
(*   source == how the command was put together: [family, ..] with what    *)
(*             its author meant by it (the programs in it, in order)       *)
(*   input  == [text, ast]: the string and the AST brush-parser yields     *)
(*   result == Result<Vec<CommandSegment>>: [ok, segs]                     *)
(***************************************************************************)

MaxDepth == 2        \* compound commands nested in one another

Segment(program, args) == [program |-> program, args |-> args]

\* an item of the universe: a command, its text, and the segments of the
\* simple commands with a program word that it contains, in source order
Item(cmd, text, expect) == [cmd |-> cmd, text |-> text, expect |-> expect]

Compound(compound) == [type |-> "Compound", compound |-> compound]

LeafItems ==
    { Item(Simple(w_rm, Words(<<a_rf, a_root>>)), <<"r", "m", " ", "-", "r", "f", " ", "/">>,
           <<Segment(w_rm, <<a_r, a_f, a_root>>)>>),
      Item(Simple(w_bin_rm, Words(<<a_x>>)), <<"/", "b", "i", "n", "/", "r", "m", " ", "x">>, <<Segment(w_rm, <<a_x>>)>>),
      Item(Simple(w_git, <<>>), w_git, <<Segment(w_git, <<>>)>>),
      Item(Simple(w_command, Words(<<w_git, a_status>>)),
           <<"c", "o", "m", "m", "a", "n", "d", " ",
             "g", "i", "t", " ", "s", "t", "a", "t", "u", "s">>,
           <<Segment(w_git, <<a_status>>)>>),
      Item(Simple(<<>>, <<[kind |-> "AssignmentWord", text |-> a_assign,
                           payload_ast |-> ParseError]>>), a_assign, <<>>),
      Item(Compound([kind |-> "Arithmetic"]), <<"(", "(", "1", ")", ")">>, <<>>),
      Item([type |-> "ExtendedTest"], <<"[", "[", " ", "x", " ", "]", "]">>, <<>>) }

\* the command written next to a nested one
SiblingItem == Item(Simple(w_ls, <<>>), w_ls, <<Segment(w_ls, <<>>)>>)

AndOr(first, additional) == [first |-> first, additional |-> additional]

\* compound lists: a command alone, x && y, x || y, x | y and x ; y
ListOf(x) == Item(<<AndOr(<<x.cmd>>, <<>>)>>, x.text, x.expect)
ListAnd(x, y) ==
    Item(<<AndOr(<<x.cmd>>, << <<y.cmd>> >>)>>, x.text \o <<" ", "&", "&", " ">> \o y.text,
         x.expect \o y.expect)
ListOr(x, y) ==
    Item(<<AndOr(<<x.cmd>>, << <<y.cmd>> >>)>>, x.text \o <<" ", "|", "|", " ">> \o y.text,
         x.expect \o y.expect)
ListPipe(x, y) ==
    Item(<<AndOr(<<x.cmd, y.cmd>>, <<>>)>>, x.text \o <<" ", "|", " ">> \o y.text,
         x.expect \o y.expect)
ListSeq(x, y) ==
    Item(<<AndOr(<<x.cmd>>, <<>>), AndOr(<<y.cmd>>, <<>>)>>, x.text \o <<";", " ">> \o y.text,
         x.expect \o y.expect)

\* compound commands around compound lists
Subshell(l) ==
    Item(Compound([kind |-> "Subshell", list |-> l.cmd]), <<"(">> \o l.text \o <<")">>, l.expect)
BraceGroup(l) ==
    Item(Compound([kind |-> "BraceGroup", list |-> l.cmd]),
         <<"{", " ">> \o l.text \o <<";", " ", "}">>, l.expect)
FunctionDef(l) ==
    Item([type |-> "Function", body |-> [kind |-> "BraceGroup", list |-> l.cmd]],
         <<"f", "(", ")", " ", "{", " ">> \o l.text \o <<";", " ", "}">>, l.expect)
ForClause(l) ==
    Item(Compound([kind |-> "ForClause", body |-> l.cmd]),
         <<"f", "o", "r", " ", "i", " ", "i", "n", " ", "a", ";", " ", "d", "o", " ">> \o l.text
           \o <<";", " ", "d", "o", "n", "e">>, l.expect)
ArithmeticForClause(l) ==
    Item(Compound([kind |-> "ArithmeticForClause", body |-> l.cmd]),
         <<"f", "o", "r", " ", "(", "(", ";", ";", ")", ")", ";", " ", "d", "o", " ">> \o l.text
           \o <<";", " ", "d", "o", "n", "e">>, l.expect)
WhileClause(c, b) ==
    Item(Compound([kind |-> "WhileClause", condition |-> c.cmd, body |-> b.cmd]),
         <<"w", "h", "i", "l", "e", " ">> \o c.text \o <<";", " ", "d", "o", " ">> \o b.text
           \o <<";", " ", "d", "o", "n", "e">>, c.expect \o b.expect)
UntilClause(c, b) ==
    Item(Compound([kind |-> "UntilClause", condition |-> c.cmd, body |-> b.cmd]),
         <<"u", "n", "t", "i", "l", " ">> \o c.text \o <<";", " ", "d", "o", " ">> \o b.text
           \o <<";", " ", "d", "o", "n", "e">>, c.expect \o b.expect)

\* else clauses: elif c; then b  and  else b
Elif(c, b) ==
    Item(<<[has_condition |-> TRUE, condition |-> c.cmd, body |-> b.cmd]>>,
         <<";", " ", "e", "l", "i", "f", " ">> \o c.text
           \o <<";", " ", "t", "h", "e", "n", " ">> \o b.text, c.expect \o b.expect)
Else(b) ==
    Item(<<[has_condition |-> FALSE, condition |-> <<>>, body |-> b.cmd]>>,
         <<";", " ", "e", "l", "s", "e", " ">> \o b.text, b.expect)
NoElse == Item(<<>>, <<>>, <<>>)
Elses(e, f) == Item(e.cmd \o f.cmd, e.text \o f.text, e.expect \o f.expect)

IfClause(c, t, elses) ==
    Item(Compound([kind |-> "IfClause", condition |-> c.cmd, then |-> t.cmd,
                   elses |-> elses.cmd]),
         <<"i", "f", " ">> \o c.text \o <<";", " ", "t", "h", "e", "n", " ">> \o t.text
           \o elses.text \o <<";", " ", "f", "i">>,
         c.expect \o t.expect \o elses.expect)

\* case items: pattern) list ;;  and the item without commands
CaseItem(l) == Item(<<[has_cmd |-> TRUE, cmd |-> l.cmd]>>, <<"a", ")", " ">> \o l.text \o <<";", ";", " ">>, l.expect)
EmptyCaseItem == Item(<<[has_cmd |-> FALSE, cmd |-> <<>>]>>, <<"a", ")", " ">> \o <<";", ";", " ">>, <<>>)
CaseClause(items) ==
    Item(Compound([kind |-> "CaseClause", cases |-> items.cmd]),
         <<"c", "a", "s", "e", " ", "x", " ", "i", "n", " ">> \o items.text
           \o <<"e", "s", "a", "c">>, items.expect)

\* every compound command around the item x, with SiblingItem beside it
NestingsOf(x) ==
    LET s == SiblingItem
        lx == ListOf(x)
        ls == ListOf(s)
    IN { Subshell(lx), Subshell(ListAnd(x, s)), Subshell(ListOr(s, x)),
         Subshell(ListPipe(s, x)), Subshell(ListSeq(x, s)),
         BraceGroup(lx), FunctionDef(lx), ForClause(lx), ArithmeticForClause(lx),
         WhileClause(lx, ls), WhileClause(ls, lx),
         UntilClause(lx, ls), UntilClause(ls, lx),
         IfClause(lx, ls, NoElse), IfClause(ls, lx, NoElse),
         IfClause(ls, ls, Elif(lx, ls)), IfClause(ls, ls, Elif(ls, lx)),
         IfClause(ls, ls, Else(lx)), IfClause(ls, ls, Elses(Elif(ls, ls), Else(lx))),
         CaseClause(CaseItem(lx)),
         CaseClause(Elses(EmptyCaseItem, Elses(CaseItem(ls), CaseItem(lx)))) }

\* the items nested exactly depth deep: every leaf in every compound command,
\* and rm -rf / in every nesting of compound commands
RECURSIVE ItemsAtDepth(_)
ItemsAtDepth(depth) ==
    IF depth = 0 THEN LeafItems
    ELSE UNION { NestingsOf(x) :
                   x \in { y \in ItemsAtDepth(depth - 1) :
                             depth = 1 \/ Segment(w_rm, <<a_r, a_f, a_root>>) \in Range(y.expect) } }

CompoundItems == UNION { ItemsAtDepth(d) : d \in 0..MaxDepth }

\* the command line holding the item: alone, or after SiblingItem and &&
CommandLines(x) ==
    { [text |-> x.text, ast |-> Parsed(<<x.cmd>>), expect |-> x.expect],
      [text |-> SiblingItem.text \o <<" ", "&", "&", " ">> \o x.text,
       ast |-> Parsed(<<SiblingItem.cmd, x.cmd>>),
       expect |-> SiblingItem.expect \o x.expect] }

InitCompound ==
    \E x \in CompoundItems : \E line \in CommandLines(x) :
        /\ source = [family |-> "compound", expect |-> line.expect]
        /\ input = [text |-> line.text, ast |-> line.ast]

MaxWrappers == 2     \* wrappers in front of the wrapped program

redirect_to_f == IoRedirect(<<">", "f">>)

\* what may stand between a wrapper and the next word of the chain: nothing,
\* a flag, a consuming option with its value, an assignment, an option that
\* only another wrapper consumes, and a redirection written inside an option
ChainOptions(wrapper) ==
    { <<>> } \cup
    CASE wrapper = w_env ->
            { Words(<<a_i>>), Words(<<opt_u, a_name>>), Words(<<opt_unset, a_name>>),
              Words(<<opt_C, a_root>>), Words(<<opt_chdir, a_root>>),
              Words(<<opt_P, a_root>>), Words(<<opt_u, w_git>>), Words(<<a_assign>>),
              Words(<<opt_a>>), <<redirect_to_f, Word(opt_u), Word(a_name)>>,
              <<Word(opt_u), redirect_to_f, Word(a_name)>> }
      [] wrapper = w_exec ->
            { Words(<<a_c>>), Words(<<opt_a, a_name>>), Words(<<opt_u>>),
              <<Word(opt_a), redirect_to_f, Word(a_name)>> }
      [] wrapper = w_command -> { Words(<<a_p>>), Words(<<opt_u>>), Words(<<opt_a>>) }
      [] OTHER -> { Words(<<opt_a>>) }

ChainWrappers == {w_env, w_exec, w_command, w_nohup, w_builtin}

\* W1 [options] .. Wn [options], for n wrappers
RECURSIVE ChainsOf(_)
ChainsOf(n) ==
    IF n = 0 THEN { <<>> }
    ELSE UNION { { chain \o <<Word(w)>> \o options :
                     chain \in ChainsOf(n - 1), options \in ChainOptions(w) } :
                 w \in ChainWrappers }

\* X args, with the segment they stand for
ChainTargets ==
    { [items |-> Words(<<w_rm>>), segment |-> Segment(w_rm, <<>>)],
      [items |-> Words(<<w_bin_rm, a_rf, a_root>>),
       segment |-> Segment(w_rm, <<a_r, a_f, a_root>>)],
      [items |-> Words(<<w_ls, a_la, a_dashdash, a_rf>>),
       segment |-> Segment(w_ls, <<<<"-", "l">>, <<"-", "a">>, a_dashdash, a_rf>>)],
      [items |-> <<Word(w_git), redirect_to_f, Word(a_status)>>,
       segment |-> Segment(w_git, <<a_status>>)] }

InitChain ==
    \E n \in 1..MaxWrappers : \E chain \in ChainsOf(n) : \E target \in ChainTargets :
        LET items == chain \o target.items
            command == Simple(items[1].text, Tail(items))
        IN /\ source = [family |-> "chain", expect |-> <<target.segment>>]
           /\ input = [text |-> SimpleText(command), ast |-> Parsed(<<command>>)]

\* the commands written inside a split string, as text, AST and segments
Payload(text, program, expect) == [text |-> text, program |-> program, expect |-> expect]

PayloadCommands ==
    { x \in LeafItems : x.expect # <<>> }
    \cup NestingsOf(Item(Simple(w_rm, Words(<<a_x>>)), <<"r", "m", " ", "x">>,
                         <<Segment(w_rm, <<a_x>>)>>))

Payloads ==
    UNION { { Payload(x.text, <<x.cmd>>, x.expect),
              Payload(x.text \o <<" ", "&", "&", " ">> \o SiblingItem.text,
                      <<x.cmd, SiblingItem.cmd>>, x.expect \o SiblingItem.expect),
              Payload(x.text \o <<" ", "&", "&", " ", "(", "(", "1", ")", ")">>,
                      <<x.cmd, Compound([kind |-> "Arithmetic"])>>, x.expect) } :
            x \in PayloadCommands }

\* the payload as one word between quote characters (none for an empty quote)
QuotedPayload(quote, payload) ==
    [kind |-> "Word", text |-> quote \o payload.text \o quote,
     payload_ast |-> Parsed(payload.program)]

\* the ways of handing the payload to env
SplitStringForms(payload) ==
    { <<Word(opt_S), QuotedPayload(<<"\"">>, payload)>>,
      <<Word(opt_S), QuotedPayload(<<"'">>, payload)>>,
      <<Word(opt_split_string), QuotedPayload(<<"\"">>, payload)>>,
      <<Attached(opt_S, QuotedPayload(<<"\"">>, payload))>>,
      <<Attached(opt_split_string \o <<"=">>, QuotedPayload(<<"'">>, payload))>> }
    \cup IF Contains(payload.text, " ") THEN {}
         ELSE { <<Attached(opt_split_string \o <<"=">>, QuotedPayload(<<>>, payload))>>,
                <<Attached(opt_S, QuotedPayload(<<>>, payload))>> }

EnvWords == {w_env, w_usr_bin_env}
OptionsBeforeSplit == { <<>>, Words(<<a_i>>), Words(<<opt_u, a_name>>) }

\* the words after the payload, with the args they stand for
WordsAfterSplit ==
    { [items |-> <<>>, args |-> <<>>],
      [items |-> Words(<<a_la, a_x>>), args |-> <<<<"-", "l">>, <<"-", "a">>, a_x>>],
      [items |-> Words(<<a_dashdash, a_rf>>), args |-> <<a_dashdash, a_rf>>],
      [items |-> <<redirect_to_f, Word(a_root)>>, args |-> <<a_root>>] }

AppendToLast(segs, args) ==
    [k \in 1..Len(segs) |-> IF k = Len(segs) THEN Segment(segs[k].program, segs[k].args \o args)
                            ELSE segs[k]]

InitSplit ==
    \E payload \in Payloads : \E form \in SplitStringForms(payload) :
    \E w \in EnvWords : \E before \in OptionsBeforeSplit : \E after \in WordsAfterSplit :
        LET command == Simple(w, before \o form \o after.items)
        IN /\ source = [family |-> "split",
                        payload |-> payload.expect,
                        expect |-> AppendToLast(payload.expect, after.args)]
           /\ input = [text |-> SimpleText(command), ast |-> Parsed(<<command>>)]

\* a payload that is not a command:  rm (
BadPayload == Payload(<<"r", "m", " ", "(">>, <<>>, <<>>)

BadPayloadWord(quote) == [QuotedPayload(quote, BadPayload) EXCEPT !.payload_ast = ParseError]

BadSplitStringForms ==
    { <<Word(opt_S), BadPayloadWord(<<"\"">>)>>,
      <<Word(opt_split_string), BadPayloadWord(<<"'">>)>>,
      <<Attached(opt_S, BadPayloadWord(<<"\"">>))>>,
      <<Attached(opt_split_string \o <<"=">>, BadPayloadWord(<<"\"">>))>> }

WordsAfterBadSplit ==
    { <<>>, Words(<<a_i>>), Words(<<a_assign>>), <<redirect_to_f>>,
      Words(<<w_ls>>), Words(<<w_ls, a_la>>), Words(<<a_i, w_git, a_status>>) }

InitBadSplit ==
    \E form \in BadSplitStringForms : \E w \in EnvWords :
    \E before \in OptionsBeforeSplit : \E after \in WordsAfterBadSplit :
        LET command == Simple(w, before \o form \o after)
        IN /\ source = [family |-> "bad_split", after |-> ItemTexts(after)]
           /\ input = [text |-> SimpleText(command), ast |-> Parsed(<<command>>)]

a_o_eq_x == <<"-", "o", "=", "x">>

\* the tokens written after a program
ArgTokens == {a_dash, a_dashdash, a_to, a_r, a_rf, a_to_eq_x, a_o_eq_x, a_x, a_assign}

\* the ways of launching rm with the tokens behind it
Launches(items) ==
    { Simple(w_rm, items),
      Simple(w_rm, <<redirect_to_f>> \o items),
      Simple(w_env, <<Word(w_bin_rm)>> \o items),
      Simple(w_env, <<Word(opt_S), QuotedPayload(<<"\"">>,
                        Payload(w_rm, <<Simple(w_rm, <<>>)>>, <<Segment(w_rm, <<>>)>>))>>
                    \o items) }

InitArgs ==
    \E tokens \in SeqsUpTo(ArgTokens, MaxArgs) : \E command \in Launches(Words(tokens)) :
        /\ source = [family |-> "args", tokens |-> tokens]
        /\ input = [text |-> SimpleText(command), ast |-> Parsed(<<command>>)]

InitWalk ==
    /\ pc = "walk_start"
    /\ home = HomeUnset
    /\ config = <<>>
    /\ trace = <<>>
    /\ result = Err
    /\ (InitCompound \/ InitChain \/ InitSplit \/ InitBadSplit \/ InitArgs)

\* parse(command), as evaluate_bash calls it
ParseCommand ==
    /\ pc = "walk_start"
    /\ result' = parse(input)
    /\ pc' = "walked"
    /\ UNCHANGED <<home, source, config, input, trace>>

NextWalk == ParseCommand

SpecWalk == InitWalk /\ [][NextWalk]_vars

RedirectionInsideOption ==
    LET suffix == input.ast.program[1].suffix
    IN \E k \in 1..(Len(suffix) - 1) :
          /\ suffix[k].kind = "Word"
          /\ suffix[k].text \in {opt_u, opt_a}
          /\ suffix[k + 1].kind = "IoRedirect"

\* C21: W1 [options] W2 [options] .. X args yields exactly one segment, the
\* program X with the remaining words as its args: the options of each wrapper
\* are skipped by that wrapper's own consuming-option set, and neither the
\* word following a consuming option nor a word containing = is the program
C21_ChainUnwraps ==
    (pc = "walked" /\ source.family = "chain") => result = Ok(source.expect)

\* env -u >f N rm: the word following -u is taken as the program
C21_FailingInput ==
    /\ pc = "walked"
    /\ source.family = "chain"
    /\ input.ast.program =
          <<Simple(w_env, <<Word(opt_u), redirect_to_f, Word(a_name), Word(w_rm)>>)>>
    /\ source.expect = <<Segment(w_rm, <<>>)>>
    /\ result = Ok(<<Segment(a_name, <<w_rm>>)>>)

\* the chains without a redirection between an option and its value unwrap
C21_ChainUnwrapsUnlessRedirected ==
    (pc = "walked" /\ source.family = "chain" /\ ~RedirectionInsideOption)
        => result = Ok(source.expect)

C23_WitnessAttached ==
    /\ pc = "walked"
    /\ source.family = "split"
    /\ input.ast.program[1].suffix[1].text = opt_split_string \o <<"=">> \o w_git
    /\ result = Ok(<<Segment(w_git, <<<<"-", "l">>, <<"-", "a">>, a_x>>)>>)

\* the wrapper itself is the one segment, as when no wrapped program is found
WrapperEmitted ==
    /\ Len(result.segs) = 1
    /\ result.segs[1].program = w_env

\* C22: when the payload of -S / --split-string does not parse, the outer
\* parse still succeeds, no segment comes from the payload, and the wrapper is
\* treated as if no wrapped program had been found
C22_BadPayloadNoWrappedProgram ==
    (pc = "walked" /\ source.family = "bad_split") =>
        /\ result.ok
        /\ \A k \in 1..Len(result.segs) : result.segs[k].program # w_rm
        /\ WrapperEmitted

\* env -S "rm (" ls: the segment is ls
C22_FailingInput ==
    /\ pc = "walked"
    /\ source.family = "bad_split"
    /\ input.ast.program = <<Simple(w_env, <<Word(opt_S), BadPayloadWord(<<"\"">>), Word(w_ls)>>)>>
    /\ result = Ok(<<Segment(w_ls, <<>>)>>)

\* what holds of a bad payload: the parse succeeds, nothing comes from the
\* payload, and the wrapper is emitted when no program word follows
C22_BadPayloadSwallowed ==
    (pc = "walked" /\ source.family = "bad_split") =>
        /\ result.ok
        /\ \A k \in 1..Len(result.segs) : result.segs[k].program # w_rm
        /\ (\A k \in 1..Len(source.after) :
               StartsWith(source.after[k], <<"-">>) \/ Contains(source.after[k], "="))
              => WrapperEmitted

\* one dash, more than two characters, no =
IsCombinedShortFlags(token) ==
    /\ Len(token) > 2
    /\ token[1] = "-"
    /\ token[2] # "-"
    /\ \A k \in 1..Len(token) : token[k] # "="

\* what stands in the args for the token at position k
ArgsFor(tokens, k) ==
    IF IsCombinedShortFlags(tokens[k]) /\ \A j \in 1..(k - 1) : tokens[j] # a_dashdash
    THEN [c \in 1..(Len(tokens[k]) - 1) |-> <<"-", tokens[k][c + 1]>>]
    ELSE <<tokens[k]>>

C27_WitnessVerbatim ==
    /\ pc = "walked"
    /\ source.family = "args"
    /\ source.tokens = <<a_o_eq_x, a_to_eq_x, a_dash>>
    /\ result.segs[1].args = source.tokens

(***************************************************************************)
(* The loader of bash rules (src/config/parse/bash.rs) on its own.         *)
(*   input  == the RuleEntry: [values, children]; a value is a rule string *)
(*             with the AST brush-parser yields for it                     *)
(*   config == Result<Vec<BashRule>>: [ok, rules]                          *)
(*   trace  == the args of a segment the loaded rule is tried on           *)
(*   source == how the entry was written: [family, ..]                     *)
(***************************************************************************)

\* Flag::new
Flag_new(raw) ==
    IF StartsWith(raw, <<"-">>) THEN raw
    ELSE IF Len(raw) = 1 THEN <<"-">> \o raw
    ELSE <<"-", "-">> \o raw

\* str::split_whitespace, from position i with the token cur begun
RECURSIVE split_whitespace_from(_, _, _)
split_whitespace_from(s, i, cur) ==
    LET done == IF cur = <<>> THEN <<>> ELSE <<cur>>
    IN IF i > Len(s) THEN done
       ELSE IF s[i] \in Whitespace THEN done \o split_whitespace_from(s, i + 1, <<>>)
       ELSE split_whitespace_from(s, i + 1, Append(cur, s[i]))

split_whitespace(s) == split_whitespace_from(s, 1, <<>>)

RulesOk(rules) == [ok |-> TRUE, rules |-> rules]
RulesErr == [ok |-> FALSE, rules |-> <<>>]

\* value: [text |-> the rule string, ast |-> what brush-parser yields for it]
parse_rule_entry(value) ==
    IF TrimIsEmpty(value.text) THEN RulesErr
    ELSE IF Len(split_whitespace(value.text)) = 1
    THEN RulesOk(<<BashRule(ProgramName_new(split_whitespace(value.text)[1]))>>)
    ELSE
    LET segments == parse(value) IN
    IF ~segments.ok \/ Len(segments.segs) # 1 THEN RulesErr
    ELSE LET segment == segments.segs[1]
         IN RulesOk(<<[BashRule(segment.program) EXCEPT
                 !.required_flags = { Flag_new(arg) : arg \in
                                        { a \in Range(segment.args) : StartsWith(a, <<"-">>) } },
                 !.subcommand = SelectSeq(segment.args, LAMBDA a : ~StartsWith(a, <<"-">>))]>>)

\* parse_argument_pattern: [ok, pattern]
parse_argument_pattern(value) ==
    IF ~Contains(value, " ") THEN [ok |-> FALSE, pattern |-> <<>>]
    ELSE LET k == CHOOSE i \in 1..Len(value) :
                     value[i] = " " /\ \A j \in 1..(i - 1) : value[j] # " "
             pattern == SubSeq(value, k + 1, Len(value))
         IN IF glob_compiles(pattern)
            THEN [ok |-> TRUE, pattern |-> ArgumentPattern(SubSeq(value, 1, k - 1), pattern)]
            ELSE [ok |-> FALSE, pattern |-> <<>>]

\* the values of the child nodes in the order the loops read them: [name, v]
child_values(children) ==
    Concat([i \in 1..Len(children) |->
               [j \in 1..Len(children[i].values) |->
                   [name |-> children[i].name, v |-> children[i].values[j]]]])

PositionalNode(name) ==
    name \notin {"required-flags", "optional-flags", "required-arguments", "subcommands"}

\* the values of the nodes called name, in the order read
NodeValues(children, name) ==
    LET chosen == SelectSeq(child_values(children), LAMBDA c : c.name = name)
    IN [k \in 1..Len(chosen) |-> chosen[k].v]

\* the values of positionals and of the named positional matchers
PositionalValues(children) ==
    LET chosen == SelectSeq(child_values(children), LAMBDA c : PositionalNode(c.name))
    IN [k \in 1..Len(chosen) |-> chosen[k].v]

\* children: the nodes [name, values]; the result is [ok, rule]
parse_children(children, rule) ==
    LET flags == NodeValues(children, "required-flags")
        optional == NodeValues(children, "optional-flags")
        arguments == NodeValues(children, "required-arguments")
        chains == NodeValues(children, "subcommands")
        patterns == PositionalValues(children)
    IN IF \/ \E k \in 1..Len(arguments) : ~parse_argument_pattern(arguments[k]).ok
          \/ \E k \in 1..Len(patterns) : ~glob_compiles(patterns[k])
       THEN [ok |-> FALSE, rule |-> rule]
       ELSE [ok |-> TRUE,
             rule |-> [program |-> rule.program,
                       required_flags |-> rule.required_flags
                           \cup { Flag_new(flags[k]) : k \in 1..Len(flags) },
                       optional_flags |-> rule.optional_flags
                           \cup { Flag_new(optional[k]) : k \in 1..Len(optional) },
                       subcommand |-> rule.subcommand,
                       positionals |-> rule.positionals \o patterns,
                       required_arguments |-> rule.required_arguments \o
                           [k \in 1..Len(arguments) |->
                               parse_argument_pattern(arguments[k]).pattern],
                       subcommands |-> rule.subcommands \o
                           [k \in 1..Len(chains) |-> split_whitespace(chains[k])]]]

\* faulty variant: the inline subcommand is kept after being prepended
normalize_subcommand_chains_without_clear(rule) ==
    IF rule.subcommand = <<>> \/ rule.subcommands = <<>> THEN rule
    ELSE [rule EXCEPT !.subcommands = [k \in 1..Len(@) |-> rule.subcommand \o @[k]]]

normalize_subcommand_chains(rule) ==
    IF rule.subcommand = <<>> \/ rule.subcommands = <<>> THEN rule
    ELSE [rule EXCEPT !.subcommands = [k \in 1..Len(@) |-> rule.subcommand \o @[k]],
                      !.subcommand = <<>>]

\* for value in &entry.values: the rules of the values, in order
RECURSIVE parse_values(_)
parse_values(values) ==
    IF values = <<>> THEN RulesOk(<<>>)
    ELSE LET first == parse_rule_entry(Head(values))
             others == parse_values(Tail(values))
         IN IF first.ok /\ others.ok THEN RulesOk(first.rules \o others.rules)
            ELSE RulesErr

\* the last rule replaced by what parse_children made of it, normalized
extended_last(all, extended) ==
    IF ~extended.ok THEN RulesErr
    ELSE RulesOk([all EXCEPT ![Len(all)] = normalize_subcommand_chains(extended.rule)])

\* "Children extend the last parsed rule": all holds every rule pushed so far
extend_last(entry, all) ==
    IF entry.children.some /\ all # <<>>
    THEN extended_last(all, parse_children(entry.children.value, all[Len(all)]))
    ELSE RulesOk(all)

\* the values of the entry pushed onto rules, then its children
push_values(entry, rules, pushed) ==
    IF ~pushed.ok THEN RulesErr ELSE extend_last(entry, rules \o pushed.rules)

\* one entry: rules holds the rules of the entries before it
parse_entry(entry, rules) == push_values(entry, rules, parse_values(entry.values))

\* entries: the RuleEntry values of one tier, each [values, children]
RECURSIVE parse_rules(_)
parse_rules(entries) ==
    IF entries = <<>> THEN RulesOk(<<>>)
    ELSE LET before == parse_rules(SubSeq(entries, 1, Len(entries) - 1))
         IN IF ~before.ok THEN RulesErr
            ELSE parse_entry(entries[Len(entries)], before.rules)

RuleEntry(values, children) == [values |-> values, children |-> children]
NoChildren == [some |-> FALSE, value |-> <<>>]
ChildNode(name, values) == [name |-> name, values |-> values]

\* the tokens written after the program in a rule string
RuleTokens == {a_dash, a_dashdash, a_r, a_rf, a_to_eq_x, a_x}

\* a rule string that is its own command line:  rm tokens, env /bin/rm tokens
InitOwn ==
    \E tokens \in SeqsUpTo(RuleTokens, MaxArgs) :
    \E command \in { Simple(w_rm, Words(tokens)),
                     Simple(w_env, <<Word(w_bin_rm)>> \o Words(tokens)) } :
        /\ source = [family |-> "own", tokens |-> tokens]
        /\ input = RuleEntry(<<[text |-> SimpleText(command), ast |-> Parsed(<<command>>)]>>,
                             NoChildren)
        /\ trace = <<>>

a_origin == <<"o", "r", "i", "g", "i", "n">>
a_upstream == <<"u", "p", "s", "t", "r", "e", "a", "m">>

\* rule strings with the inline subcommand prefix they carry
InlineRules ==
    { [words |-> <<w_git>>, inline |-> <<>>],
      [words |-> <<w_git, a_push>>, inline |-> <<a_push>>],
      [words |-> <<w_git, a_f, a_push, a_origin>>, inline |-> <<a_push, a_origin>>],
      [words |-> <<w_git, a_f>>, inline |-> <<>>] }

\* values of a subcommands node with the chains they stand for
ChainValues ==
    { [text |-> a_origin, chain |-> <<a_origin>>],
      [text |-> a_upstream \o <<" ", " ">> \o a_x, chain |-> <<a_upstream, a_x>>],
      [text |-> a_push, chain |-> <<a_push>>] }

\* children blocks: none, without subcommands, and with one or two chains
ChildrenBlocks ==
    { [children |-> NoChildren, chains |-> <<>>],
      [children |-> Some(<<ChildNode("required-flags", <<<<"f">>>>)>>), chains |-> <<>>] }
    \cup { [children |-> Some(<<ChildNode("subcommands", [k \in 1..Len(q) |-> q[k].text])>>),
            chains |-> [k \in 1..Len(q) |-> q[k].chain]] :
           q \in InjSeqsUpTo(ChainValues, 2) \ {<<>>} }
    \cup { [children |-> Some(<<ChildNode("subcommands", <<c.text>>),
                                ChildNode("optional-flags", <<<<"f">>>>),
                                ChildNode("subcommands", <<c.text>>)>>),
            chains |-> <<c.chain, c.chain>>] : c \in ChainValues }

SegmentTokens == {a_push, a_origin, a_x, a_f}

InitChains ==
    \E r \in InlineRules : \E block \in ChildrenBlocks :
        LET command == Simple(Head(r.words), Words(Tail(r.words)))
        IN /\ source = [family |-> "chains", inline |-> r.inline, chains |-> block.chains]
           /\ input = RuleEntry(<<[text |-> SimpleText(command), ast |-> Parsed(<<command>>)]>>,
                                block.children)
           /\ trace \in SeqsUpTo(SegmentTokens, MaxArgs)

InitRule ==
    /\ pc = "rule_start"
    /\ home = HomeUnset
    /\ config = RulesErr
    /\ result = [matched |-> FALSE]
    /\ (InitOwn \/ InitChains)

\* parse_rules on the tier holding the entry
ParseRules ==
    /\ pc = "rule_start"
    /\ config' = parse_rules(<<input>>)
    /\ pc' = "rules_loaded"
    /\ UNCHANGED <<home, source, input, trace, result>>

\* the command has one segment and the rule matches it
matches_only_segment(rule, segments) ==
    segments.ok /\ Len(segments.segs) = 1 /\ matches(rule, segments.segs[1])

\* the rule string parsed as a command, and the rule tried on its segment
MatchOwnCommand ==
    /\ pc = "rules_loaded"
    /\ source.family = "own"
    /\ config.ok
    /\ result' = [matched |-> matches_only_segment(config.rules[1], parse(input.values[1]))]
    /\ pc' = "own_matched"
    /\ UNCHANGED <<home, source, config, input, trace>>

\* the rule tried on a segment of its program with the args of trace
MatchSegment ==
    /\ pc = "rules_loaded"
    /\ source.family = "chains"
    /\ config.ok
    /\ result' = [matched |-> matches(config.rules[1],
                                      Segment(config.rules[1].program, trace))]
    /\ pc' = "segment_matched"
    /\ UNCHANGED <<home, source, config, input, trace>>

NextRule == ParseRules \/ MatchOwnCommand \/ MatchSegment

SpecRule == InitRule /\ [][NextRule]_vars

\* C28: the rule built from an accepted rule string P a1 .. an matches the
\* segment obtained by parsing that string as a command; the loader's split
\* into required flags and subcommand prefix agrees with the matcher's split
\* into flags and positionals, also for - and --
C28_RuleMatchesOwnCommand ==
    (pc = "own_matched" /\ Len(source.tokens) >= 1) => result.matched

\* the rule string  rm -  gives a rule that does not match the command  rm -
C28_FailingInput ==
    /\ pc = "own_matched"
    /\ source.tokens = <<a_dash>>
    /\ input.values[1].text = <<"r", "m", " ", "-">>
    /\ config.rules[1].required_flags = {a_dash}
    /\ ~result.matched

\* rule strings without the tokens - and -- match their own command
C28_AgreesWithoutDashTokens ==
    (pc = "own_matched" /\ a_dash \notin Range(source.tokens)
                        /\ a_dashdash \notin Range(source.tokens)) => result.matched

\* the tokens of the segment that are not flags
UndashedTokens(args) == SelectSeq(args, LAMBDA a : a[1] # "-")

\* C29: a rule with inline subcommand prefix P and children chains C1..Cn is
\* loaded with an empty inline subcommand and the chains P ++ C1 .. P ++ Cn in
\* that order, and matches only segments whose positionals begin with some
\* P ++ Ci; when P or the chain list is empty neither is changed
C29_ChainsNormalized ==
    (source.family = "chains" /\ pc # "rule_start") =>
        /\ config.ok
        /\ IF source.inline # <<>> /\ source.chains # <<>>
           THEN /\ config.rules[1].subcommand = <<>>
                /\ config.rules[1].subcommands =
                      [k \in 1..Len(source.chains) |-> source.inline \o source.chains[k]]
                /\ (pc = "segment_matched" /\ result.matched) =>
                      \E k \in 1..Len(source.chains) :
                          StartsWith(UndashedTokens(trace), source.inline \o source.chains[k])
           ELSE /\ config.rules[1].subcommand = source.inline
                /\ config.rules[1].subcommands = source.chains

\* "git push" { subcommands "upstream  x" "origin" } matched by
\* git push origin x
C29_Witness ==
    /\ pc = "segment_matched"
    /\ source.family = "chains"
    /\ source.inline = <<a_push>>
    /\ source.chains = <<<<a_upstream, a_x>>, <<a_origin>>>>
    /\ config.rules[1].subcommands = <<<<a_push, a_upstream, a_x>>, <<a_push, a_origin>>>>
    /\ trace = <<a_push, a_origin, a_x>>
    /\ result.matched

\* "git push" without chains keeps its inline prefix
C29_WitnessUnchanged ==
    /\ pc = "rules_loaded"
    /\ source.family = "chains"
    /\ source.chains = <<>>
    /\ config.rules[1].subcommand = <<a_push>>
    /\ config.rules[1].subcommands = <<>>

\* the position of the first entity with decision d, 0 when there is none
FirstEntityWith(per_entity, d) ==
    IF \E i \in 1..Len(per_entity) : per_entity[i] = d
    THEN CHOOSE i \in 1..Len(per_entity) :
            per_entity[i] = d /\ \A j \in 1..(i - 1) : per_entity[j] # d
    ELSE 0

\* C30: in a Deny or Ask reason the trigger is the first entity whose decision
\* equals the aggregated decision before the mode modifier, or, when that is
\* Ask and no entity has an explicit Ask, the first entity without decision;
\* one of the two always applies, and the trigger is never an allowed entity
C30_TriggerIsFirstResponsible ==
    (pc = "reasoned" /\ result \in {Deny, Ask}) =>
        LET explicit == FirstEntityWith(trace.per_entity, trace.aggregated)
            unlisted == FirstEntityWith(trace.per_entity, None)
            k == IF explicit # 0 THEN explicit ELSE unlisted
        IN /\ explicit # 0 \/ (trace.aggregated = Ask /\ unlisted # 0)
           /\ source.reason.trigger = source.entities[k]
           /\ trace.per_entity[k] # Allow

\* allowed, unlisted, allowed: the second entity is asked about
C30_Witness ==
    /\ pc = "reasoned"
    /\ trace.per_entity = <<Allow, None, Allow>>
    /\ trace.aggregated = Ask
    /\ result = Ask
    /\ source.reason.trigger = w_git

\* unlisted, allowed, explicit ask under dontAsk: the third is denied
C30_WitnessDontAsk ==
    /\ pc = "reasoned"
    /\ trace.per_entity = <<None, Allow, Ask>>
    /\ trace.aggregated = Ask
    /\ result = Deny
    /\ source.reason = Reason("denied by dontAsk mode", p_tilde, <<>>)

====
